---- MODULE Spec2Model ----
(***************************************************************************)
(* Huntcore pushbutton scripts, modelled one script per group of           *)
(* variables.  A behaviour runs one script (or, for the filter scripts, an *)
(* export followed by an import); the variables of the scripts that are    *)
(* not running keep their idle values.                                     *)
(*                                                                         *)
(* Text is a sequence of one-character strings, so that the string         *)
(* functions of the scripts (int, str, zfill, upper, the regular           *)
(* expressions) are computed character by character as the code does.      *)
(***************************************************************************)
EXTENDS Integers, Sequences, FiniteSets, TLC

VARIABLES
    \* Viewport Renumber: the numbering loop (generate_alphanumeric)
    start_str, idx, newnums,
    \* Increment Value
    old_val, increment, new_val, param_val, read_only, inc_pc, inc_tx, count,
    \* Linetype Filters / Detail Filters: parse_color
    value, color,
    \* Export Filter Values, Linetype Filters, Create Linetype Filters
    system_bound, template_filters, files, doc_filters, view_overrides,
    flt_pc, imp_tx, filter_data, created_filters, failed,
    \* Viewport Renumber: main
    viewports, view_names, vp_start_str, row_tol, rows, ordered_vps, rn_pc, rn_tx,
    rn_user_text, rn_choices,
    \* Sheets From Excel
    excel_rows, doc_sheets, sheet_data, existing_sheets, chosen_new, chosen_update,
    created, updated, skipped, errors, row_idx, sx_pc,
    \* Add Worksets
    worksets, ws_before, user_packages, selected_package_name, selected, workset1_newname,
    ws_created, ws_skipped, ws_renamed, ws_errors, aw_tx, aw_pc, synced,
    \* Add Worksets: the custom package manager
    USER_PACKAGES, user_config_file, managed, mp_runs, mp_pc,
    \* Join Hierarchy
    jh_elements, joins, joins_before, ordered_checked_names, preview_only,
    current_view_only, unreadable_pairs, joined_pairs, switched_count, errors_count,
    switch_calls, jh_tx, jh_pc,
    \* View Text: convert_case
    vt_text, case_type, new_text, vt_pc

vars == <<start_str, idx, newnums,
          old_val, increment, new_val, param_val, read_only, inc_pc, inc_tx, count,
          value, color,
          system_bound, template_filters, files, doc_filters, view_overrides,
          flt_pc, imp_tx, filter_data, created_filters, failed,
          viewports, view_names, vp_start_str, row_tol, rows, ordered_vps, rn_pc, rn_tx,
          rn_user_text, rn_choices,
          excel_rows, doc_sheets, sheet_data, existing_sheets, chosen_new, chosen_update,
          created, updated, skipped, errors, row_idx, sx_pc,
          worksets, ws_before, user_packages, selected_package_name, selected,
          workset1_newname, ws_created, ws_skipped, ws_renamed, ws_errors, aw_tx, aw_pc,
          synced,
          USER_PACKAGES, user_config_file, managed, mp_runs, mp_pc,
          jh_elements, joins, joins_before, ordered_checked_names, preview_only,
          current_view_only, unreadable_pairs, joined_pairs, switched_count,
          errors_count, switch_calls, jh_tx, jh_pc,
          vt_text, case_type, new_text, vt_pc>>

\* No script but the one run changes its state
OthersUnchanged(script) ==
    /\ IF script = "numbering" THEN TRUE ELSE
           UNCHANGED <<start_str, idx, newnums>>
    /\ IF script = "Increment Value" THEN TRUE ELSE
           UNCHANGED <<old_val, increment, new_val, param_val, read_only, inc_pc, inc_tx, count>>
    /\ IF script = "parse_color" THEN TRUE ELSE
           UNCHANGED <<value, color>>
    /\ IF script = "filters" THEN TRUE ELSE
           UNCHANGED <<system_bound, template_filters, files, doc_filters, view_overrides,
                         flt_pc, imp_tx, filter_data, created_filters, failed>>
    /\ IF script = "Viewport Renumber" THEN TRUE ELSE
           UNCHANGED <<viewports, view_names, vp_start_str, row_tol, rows, ordered_vps,
                         rn_pc, rn_tx, rn_user_text, rn_choices>>
    /\ IF script = "Sheets From Excel" THEN TRUE ELSE
           UNCHANGED <<excel_rows, doc_sheets, sheet_data, existing_sheets, chosen_new,
                         chosen_update, created, updated, skipped, errors, row_idx, sx_pc>>
    /\ IF script = "Add Worksets" THEN TRUE ELSE
           UNCHANGED <<worksets, ws_before, user_packages, selected_package_name, selected,
                         workset1_newname, ws_created, ws_skipped, ws_renamed, ws_errors,
                         aw_tx, aw_pc, synced>>
    /\ IF script = "Manage Custom Packages" THEN TRUE ELSE
           UNCHANGED <<USER_PACKAGES, user_config_file, managed, mp_runs, mp_pc>>
    /\ IF script = "Join Hierarchy" THEN TRUE ELSE
           UNCHANGED <<jh_elements, joins, joins_before, ordered_checked_names,
                         preview_only, current_view_only, unreadable_pairs, joined_pairs,
                         switched_count, errors_count, switch_calls, jh_tx, jh_pc>>
    /\ IF script = "View Text" THEN TRUE ELSE
           UNCHANGED <<vt_text, case_type, new_text, vt_pc>>

----------------------------------------------------------------------------
(* Characters and the Python string primitives the scripts use.            *)

Digits == <<"0", "1", "2", "3", "4", "5", "6", "7", "8", "9">>
Upper == <<"A", "B", "C", "D", "E", "F", "G", "H", "I", "J", "K", "L", "M",
           "N", "O", "P", "Q", "R", "S", "T", "U", "V", "W", "X", "Y", "Z">>
Lower == <<"a", "b", "c", "d", "e", "f", "g", "h", "i", "j", "k", "l", "m",
           "n", "o", "p", "q", "r", "s", "t", "u", "v", "w", "x", "y", "z">>

IsDigit(c) == \E i \in 1..10 : Digits[i] = c
IsLetter(c) == \E i \in 1..26 : Upper[i] = c \/ Lower[i] = c
DigitVal(c) == (CHOOSE i \in 1..10 : Digits[i] = c) - 1
\* ord(c.upper()) - 64
LetterVal(c) == CHOOSE i \in 1..26 : Upper[i] = c \/ Lower[i] = c
upper_char(c) == IF \E i \in 1..26 : Lower[i] = c
                 THEN Upper[CHOOSE i \in 1..26 : Lower[i] = c] ELSE c
lower_char(c) == IF \E i \in 1..26 : Upper[i] = c
                 THEN Lower[CHOOSE i \in 1..26 : Upper[i] = c] ELSE c
upper(s) == [i \in 1..Len(s) |-> upper_char(s[i])]
lower(s) == [i \in 1..Len(s) |-> lower_char(s[i])]

Front(s) == SubSeq(s, 1, Len(s) - 1)
Last(s) == s[Len(s)]
AllDigits(s) == \A i \in 1..Len(s) : IsDigit(s[i])
AllLetters(s) == \A i \in 1..Len(s) : IsLetter(s[i])

\* int(s) for a string of decimal digits
RECURSIVE py_int(_)
py_int(s) == IF s = <<>> THEN 0 ELSE py_int(Front(s)) * 10 + DigitVal(Last(s))

\* str(n) for an integer
RECURSIVE str_nat(_)
str_nat(n) == IF n < 10 THEN <<Digits[n + 1]>>
              ELSE str_nat(n \div 10) \o <<Digits[(n % 10) + 1]>>
py_str(n) == IF n < 0 THEN <<"-">> \o str_nat(-n) ELSE str_nat(n)

RECURSIVE Zeros(_)
Zeros(n) == IF n <= 0 THEN <<>> ELSE <<"0">> \o Zeros(n - 1)

\* s.zfill(width): zeros go after a leading sign
zfill(s, width) ==
    IF Len(s) >= width THEN s
    ELSE IF s # <<>> /\ s[1] \in {"+", "-"}
         THEN <<s[1]>> \o Zeros(width - Len(s)) \o Tail(s)
         ELSE Zeros(width - Len(s)) \o s

\* All sequences over alphabet A of length at most n
RECURSIVE SeqsUpTo(_, _)
SeqsUpTo(A, n) ==
    IF n = 0 THEN {<<>>}
    ELSE LET shorter == SeqsUpTo(A, n - 1)
         IN  shorter \cup {Append(s, c) : s \in {t \in shorter : Len(t) = n - 1}, c \in A}

----------------------------------------------------------------------------
(* Viewport Renumber: detail numbering.                                    *)

MaxStartLen == 3
MaxIndex == 3

\* int_to_letters with divmod(n, 26) in place of divmod(n - 1, 26)
RECURSIVE int_to_letters_plain26(_)
int_to_letters_plain26(n) ==
    IF n > 0
    THEN int_to_letters_plain26(n \div 26) \o <<Upper[(n % 26) + 1]>>
    ELSE <<>>

RECURSIVE int_to_letters(_)
int_to_letters(n) ==
    IF n > 0
    THEN int_to_letters((n - 1) \div 26) \o <<Upper[((n - 1) % 26) + 1]>>
    ELSE <<>>

\* sum((ord(c.upper()) - 64) * 26**i for i, c in enumerate(reversed(s)))
RECURSIVE letters_to_int(_)
letters_to_int(s) ==
    IF s = <<>> THEN 0 ELSE letters_to_int(Front(s)) * 26 + LetterVal(Last(s))

\* The split of ^([A-Z]+)(\d+)$: the length of the letter prefix, 0 if no match
LetterPrefixLen(s) ==
    LET ks == {k \in 1..(Len(s) - 1) :
                  /\ AllLetters(SubSeq(s, 1, k))
                  /\ AllDigits(SubSeq(s, k + 1, Len(s)))}
    IN  IF ks = {} THEN 0 ELSE CHOOSE k \in ks : TRUE

generate_alphanumeric(s, index) ==
    IF s # <<>> /\ AllDigits(s)
    THEN py_str(py_int(s) + index)
    ELSE IF s # <<>> /\ AllLetters(s)
    THEN int_to_letters(letters_to_int(s) + index)
    ELSE IF LetterPrefixLen(s) > 0
    THEN LET k == LetterPrefixLen(s)
         IN  upper(SubSeq(s, 1, k)) \o py_str(py_int(SubSeq(s, k + 1, Len(s))) + index)
    ELSE IF index = 0 THEN s
    ELSE s \o py_str(index)

\* for idx, vp in enumerate(ordered_vps): newnum = generate_alphanumeric(start_str, idx)
GenerateNext ==
    /\ idx <= MaxIndex
    /\ newnums' = Append(newnums, generate_alphanumeric(start_str, idx))
    /\ idx' = idx + 1
    /\ UNCHANGED start_str
    /\ OthersUnchanged("numbering")

----------------------------------------------------------------------------
(* Increment Value.                                                        *)

MaxValLen == 3

\* re.search(r"(\d+)(?!.*\d)", s): the leftmost start, and for it the longest
\* run of digits after which no digit follows on the same line ('.' does not
\* match a line break).  <<0, 0>> when there is no match; otherwise
\* <<first, last>>, 1-based and inclusive.
NoDigitAhead(s, e) ==
    ~ \E j \in (e + 1)..Len(s) :
          /\ IsDigit(s[j])
          /\ \A k \in (e + 1)..(j - 1) : s[k] # "\n"

MatchesAt(s, i) ==
    {e \in i..Len(s) : AllDigits(SubSeq(s, i, e)) /\ NoDigitAhead(s, e)}

Max(S) == CHOOSE x \in S : \A y \in S : y <= x
Min(S) == CHOOSE x \in S : \A y \in S : x <= y

last_number_block(s) ==
    LET starts == {i \in 1..Len(s) : MatchesAt(s, i) # {}}
    IN  IF starts = {} THEN <<0, 0>>
        ELSE LET i == Min(starts) IN <<i, Max(MatchesAt(s, i))>>

\* update_value without the zfill
update_value_nofill(val, inc) ==
    IF val = <<>> THEN val
    ELSE LET m == last_number_block(val)
         IN  IF m = <<0, 0>> THEN val
             ELSE LET number == SubSeq(val, m[1], m[2])
                  IN  SubSeq(val, 1, m[1] - 1) \o py_str(py_int(number) + inc)
                        \o SubSeq(val, m[2] + 1, Len(val))

update_value(val, inc) ==
    IF val = <<>> THEN val
    ELSE LET m == last_number_block(val)
         IN  IF m = <<0, 0>> THEN val
             ELSE LET number == SubSeq(val, m[1], m[2])
                      new_number == zfill(py_str(py_int(number) + inc), Len(number))
                  IN  SubSeq(val, 1, m[1] - 1) \o new_number
                        \o SubSeq(val, m[2] + 1, Len(val))

Pending == <<"?">>

\* Build preview values: element_map[el] = (old_val, update_value(old_val, increment))
IncBuildPreview ==
    /\ inc_pc = "preview"
    /\ new_val' = update_value(old_val, increment)
    /\ inc_pc' = "start"
    /\ UNCHANGED <<old_val, increment, read_only, param_val, inc_tx, count>>
    /\ OthersUnchanged("Increment Value")

\* t = Transaction(doc, ...); t.Start()
IncStart ==
    /\ inc_pc = "start"
    /\ inc_tx' = "started"
    /\ inc_pc' = "apply"
    /\ UNCHANGED <<old_val, increment, read_only, param_val, new_val, count>>
    /\ OthersUnchanged("Increment Value")

\* The loop over element_map: p.Set(new_val) when the value changes.  The host
\* raises on a read-only parameter and nothing catches it: the script ends there.
IncApply ==
    /\ inc_pc = "apply"
    /\ IF new_val # <<>> /\ old_val # new_val
       THEN IF read_only
            THEN /\ inc_pc' = "raised"
                 /\ UNCHANGED <<param_val, count>>
            ELSE /\ param_val' = new_val
                 /\ count' = count + 1
                 /\ inc_pc' = "commit"
       ELSE /\ inc_pc' = "commit"
            /\ UNCHANGED <<param_val, count>>
    /\ UNCHANGED <<old_val, increment, read_only, new_val, inc_tx>>
    /\ OthersUnchanged("Increment Value")

\* t.Commit(); TaskDialog.Show("Done", ...)
IncCommit ==
    /\ inc_pc = "commit"
    /\ inc_tx' = "committed"
    /\ inc_pc' = "done"
    /\ UNCHANGED <<old_val, increment, read_only, param_val, new_val, count>>
    /\ OthersUnchanged("Increment Value")

IncNext == IncBuildPreview \/ IncStart \/ IncApply \/ IncCommit

----------------------------------------------------------------------------
(* Linetype Filters and Detail Filters: parse_color.                       *)
(* A Python value is a record: t is its type, s its text (str), l its      *)
(* entries (list or tuple), n its number (int).                            *)

PyNone == [t |-> "none", s |-> <<>>, l |-> <<>>, n |-> 0]
PyStr(chars) == [t |-> "str", s |-> chars, l |-> <<>>, n |-> 0]
PyList(entries) == [t |-> "list", s |-> <<>>, l |-> entries, n |-> 0]
PyNum(k) == [t |-> "int", s |-> <<>>, l |-> <<>>, n |-> k]

\* The result of parse_color: a Color, None, or an exception that leaves it
RGB(r, g, b) == [kind |-> "color", rgb |-> <<r, g, b>>]
NoColor == [kind |-> "none", rgb |-> <<>>]
Raised == [kind |-> "raise", rgb |-> <<>>]
NotParsed == [kind |-> "pending", rgb |-> <<>>]

\* Color(r, g, b): the host constructor takes three bytes and raises otherwise
Color(r, g, b) ==
    IF r \in 0..255 /\ g \in 0..255 /\ b \in 0..255 THEN RGB(r, g, b) ELSE Raised

Chars(str) ==
    CASE str = "red" -> <<"r", "e", "d">>
      [] str = "blue" -> <<"b", "l", "u", "e">>
      [] str = "green" -> <<"g", "r", "e", "e", "n">>
      [] str = "black" -> <<"b", "l", "a", "c", "k">>
      [] str = "white" -> <<"w", "h", "i", "t", "e">>
      [] str = "gray" -> <<"g", "r", "a", "y">>
      [] str = "grey" -> <<"g", "r", "e", "y">>
      [] str = "yellow" -> <<"y", "e", "l", "l", "o", "w">>
      [] str = "cyan" -> <<"c", "y", "a", "n">>
      [] str = "magenta" -> <<"m", "a", "g", "e", "n", "t", "a">>

COLOR_NAMES == {"red", "blue", "green", "black", "white", "gray", "grey",
                "yellow", "cyan", "magenta"}

COLOR_NAME_MAP ==
    [name \in COLOR_NAMES |->
        CASE name = "red" -> <<255, 0, 0>>
          [] name = "blue" -> <<0, 0, 255>>
          [] name = "green" -> <<0, 128, 0>>
          [] name = "black" -> <<0, 0, 0>>
          [] name = "white" -> <<255, 255, 255>>
          [] name = "gray" -> <<128, 128, 128>>
          [] name = "grey" -> <<128, 128, 128>>
          [] name = "yellow" -> <<255, 255, 0>>
          [] name = "cyan" -> <<0, 255, 255>>
          [] name = "magenta" -> <<255, 0, 255>>]

IsSpace(c) == c \in {" ", "\t", "\n", "\r"}

\* text.strip()
RECURSIVE lstrip(_)
lstrip(s) == IF s # <<>> /\ IsSpace(s[1]) THEN lstrip(Tail(s)) ELSE s
RECURSIVE rstrip(_)
rstrip(s) == IF s # <<>> /\ IsSpace(Last(s)) THEN rstrip(Front(s)) ELSE s
strip(s) == rstrip(lstrip(s))

HexDigits == <<"0", "1", "2", "3", "4", "5", "6", "7", "8", "9",
               "A", "B", "C", "D", "E", "F">>
IsHex(c) == \E i \in 1..16 : HexDigits[i] = upper_char(c)
HexVal(c) == (CHOOSE i \in 1..16 : HexDigits[i] = upper_char(c)) - 1
\* int(hexs[a:b], 16) for two hex digits
hex_byte(s) == HexVal(s[1]) * 16 + HexVal(s[2])

\* m.group(1) of re.match(r"^#?([0-9A-Fa-f]{6})$", text); <<>> when no match
hex_match(text) ==
    LET body == IF text # <<>> /\ text[1] = "#" THEN Tail(text) ELSE text
    IN  IF Len(body) = 6 /\ \A i \in 1..6 : IsHex(body[i]) THEN body ELSE <<>>

\* re.findall(r"\d{1,3}", text): greedy groups of up to three digits, left to right
RECURSIVE findall_digits(_)
findall_digits(s) ==
    IF s = <<>> THEN <<>>
    ELSE IF ~IsDigit(s[1]) THEN findall_digits(Tail(s))
    ELSE LET n == IF Len(s) >= 3 /\ IsDigit(s[2]) /\ IsDigit(s[3]) THEN 3
                   ELSE IF Len(s) >= 2 /\ IsDigit(s[2]) THEN 2
                   ELSE 1
         IN  <<SubSeq(s, 1, n)>> \o findall_digits(SubSeq(s, n + 1, Len(s)))

\* str(value) for the values that reach it
to_text(v) == IF v.t = "str" THEN v.s ELSE py_str(v.n)

parse_color(v) ==
    IF v.t = "none" THEN NoColor
    ELSE IF v.t = "list"
    THEN \* try: Color(int(value[0]), int(value[1]), int(value[2])) except: None
         IF Len(v.l) < 3 THEN NoColor
         ELSE IF Color(v.l[1], v.l[2], v.l[3]) = Raised THEN NoColor
         ELSE Color(v.l[1], v.l[2], v.l[3])
    ELSE LET text == strip(to_text(v))
             hexs == hex_match(text)
             nums == findall_digits(text)
             key == lower(text)
         IN  IF hexs # <<>>
             THEN Color(hex_byte(SubSeq(hexs, 1, 2)), hex_byte(SubSeq(hexs, 3, 4)),
                        hex_byte(SubSeq(hexs, 5, 6)))
             ELSE IF Len(nums) >= 3
             THEN Color(py_int(nums[1]), py_int(nums[2]), py_int(nums[3]))
             ELSE IF \E name \in COLOR_NAMES : Chars(name) = key
             THEN LET name == CHOOSE nm \in COLOR_NAMES : Chars(nm) = key
                  IN  Color(COLOR_NAME_MAP[name][1], COLOR_NAME_MAP[name][2],
                            COLOR_NAME_MAP[name][3])
             ELSE NoColor

MaxColorLen == 7
MaxListLen == 3

\* col = parse_color(overrides.get("line_color"))
ParseColor ==
    /\ color = NotParsed
    /\ color' = parse_color(value)
    /\ UNCHANGED value
    /\ OthersUnchanged("parse_color")

----------------------------------------------------------------------------
(* The filter scripts.  Export Filter Values reads the filters of one view *)
(* template of the open document and writes filters.json beside its own    *)
(* script; Linetype Filters and Create Linetype Filters each read the      *)
(* filters.json beside their own script and write filters and overrides    *)
(* into the document then open (which has one view template, and no filter *)
(* or one made earlier under the name of the hand-written record).  Detail *)
(* Filters has the code of Linetype Filters, function for function.        *)

\* The host's categories and parameters: the enum member naming each, the
\* text of its integer id, and its display name.
Categories == {"OST_Walls", "OST_Doors"}
BuiltInParameters == {"ALL_MODEL_INSTANCE_COMMENTS"}
SharedParameters == {"SP_Zone"}
LinePatterns == {"Dash"}
DisplayName(x) ==
    CASE x = "OST_Walls" -> "Walls"
      [] x = "OST_Doors" -> "Doors"
      [] x = "SP_Zone" -> "Zone"
IntegerValue(x) ==
    CASE x = "ALL_MODEL_INSTANCE_COMMENTS" -> "-1010106"
      [] x = "SP_Zone" -> "518204"

Equals == <<"E", "q", "u", "a", "l", "s">>
Contains == <<"C", "o", "n", "t", "a", "i", "n", "s">>
Unknown == <<"U", "n", "k", "n", "o", "w", "n">>

\* The three filters.json files, one beside each script
EXPORT_JSON == "Export Filter Values.pushbutton/filters.json"
LINETYPE_JSON == "Linetype Filters.pushbutton/filters.json"
CREATE_JSON == "Create Linetype Filters.pushbutton/filters.json"
JsonPaths == {EXPORT_JSON, LINETYPE_JSON, CREATE_JSON}
NoFile == [exists |-> FALSE, data |-> <<>>]

\* --- Export Filter Values ---

\* parse_filter_rules: only the string rules of an ElementParameterFilter
\* are read.  System is used without an import: where the host engine does
\* not bind it, the conversion to the enum raises and the integer is written.
parse_filter_rules(f) ==
    IF f.efilter # "ElementParameterFilter" THEN <<>>
    ELSE LET strs == SelectSeq(f.rules, LAMBDA r : r.rtype = "FilterStringRule")
         IN  [i \in 1..Len(strs) |->
                [param |-> IF system_bound /\ strs[i].pid \in BuiltInParameters
                           THEN strs[i].pid ELSE IntegerValue(strs[i].pid),
                 condition |-> IF strs[i].evaluator = "FilterStringEquals" THEN Equals
                               ELSE IF strs[i].evaluator = "FilterStringContains" THEN Contains
                               ELSE Unknown,
                 value |-> strs[i].value]]

\* parse_overrides: a key is written only for an override that is set; the
\* solid line pattern has an id but no element and is left out.
parse_overrides(ogs) ==
    [halftone |-> ogs.halftone,
     line_color |-> IF ogs.line_color # <<>> THEN PyList(ogs.line_color) ELSE PyNone,
     line_pattern |-> IF ogs.pattern \in LinePatterns THEN ogs.pattern ELSE "",
     line_weight |-> -1,
     surface_transparency |-> IF ogs.transparency > 0 THEN ogs.transparency ELSE -1]

\* resolve_categories: the enum name, or the category's display name
resolve_categories(f) ==
    [i \in 1..Len(f.cats) |-> IF system_bound THEN f.cats[i] ELSE DisplayName(f.cats[i])]

export_record(f) ==
    [name |-> f.name, categories |-> resolve_categories(f),
     rules |-> parse_filter_rules(f), overrides |-> parse_overrides(f.ogs)]

\* json.dump / json.load: numbers are written as decimal text and read back
json_dump_value(v) == IF v.t = "list" THEN [t |-> "list", s |-> <<>>, l |-> [i \in 1..Len(v.l) |-> py_str(v.l[i])]]
                      ELSE [t |-> v.t, s |-> v.s, l |-> <<>>]
json_load_value(j) == IF j.t = "list" THEN PyList([i \in 1..Len(j.l) |-> py_int(j.l[i])])
                      ELSE [t |-> j.t, s |-> j.s, l |-> <<>>, n |-> 0]
json_dump(records) ==
    [i \in 1..Len(records) |->
        [name |-> records[i].name, categories |-> records[i].categories,
         rules |-> records[i].rules,
         overrides |->
            [halftone |-> IF records[i].overrides.halftone THEN "true" ELSE "",
             line_color |-> json_dump_value(records[i].overrides.line_color),
             line_pattern |-> records[i].overrides.line_pattern,
             line_weight |-> IF records[i].overrides.line_weight < 0 THEN <<>>
                             ELSE py_str(records[i].overrides.line_weight),
             surface_transparency |->
                 IF records[i].overrides.surface_transparency < 0 THEN <<>>
                 ELSE py_str(records[i].overrides.surface_transparency)]]]
json_load(data) ==
    [i \in 1..Len(data) |->
        [name |-> data[i].name, categories |-> data[i].categories,
         rules |-> data[i].rules,
         overrides |->
            [halftone |-> data[i].overrides.halftone = "true",
             line_color |-> json_load_value(data[i].overrides.line_color),
             line_pattern |-> data[i].overrides.line_pattern,
             line_weight |-> IF data[i].overrides.line_weight = <<>> THEN -1
                             ELSE py_int(data[i].overrides.line_weight),
             surface_transparency |->
                 IF data[i].overrides.surface_transparency = <<>> THEN -1
                 ELSE py_int(data[i].overrides.surface_transparency)]]]

\* The whole script: the template's filters are exported to the file beside it
ExportFilterValues ==
    /\ flt_pc = <<"Export", "start">>
    /\ files' = [files EXCEPT ![EXPORT_JSON] =
                    [exists |-> TRUE,
                     data |-> json_dump([i \in 1..Len(template_filters) |->
                                            export_record(template_filters[i])])]]
    /\ flt_pc' = <<"Export", "done">>
    /\ UNCHANGED <<system_bound, template_filters, doc_filters, view_overrides,
                   imp_tx, filter_data, created_filters, failed>>
    /\ OthersUnchanged("filters")

\* The user puts the exported file beside an importing script
UserCopiesFile ==
    /\ flt_pc = <<"Export", "done">>
    /\ files[EXPORT_JSON].exists
    /\ \E to \in {LINETYPE_JSON, CREATE_JSON} :
          /\ files[to] # files[EXPORT_JSON]
          /\ files' = [files EXCEPT ![to] = files[EXPORT_JSON]]
    /\ UNCHANGED <<system_bound, template_filters, doc_filters, view_overrides,
                   flt_pc, imp_tx, filter_data, created_filters, failed>>
    /\ OthersUnchanged("filters")

\* --- the importing scripts ---

DefaultOgs == [halftone |-> FALSE, line_color |-> <<>>, pattern |-> "",
               weight |-> -1, transparency |-> 0]
Failure == [ok |-> FALSE, filter |-> [name |-> "", cats |-> <<>>, efilter |-> "", rules |-> <<>>],
            ogs |-> DefaultOgs]
Created(f) == [ok |-> TRUE, filter |-> f, ogs |-> DefaultOgs]
Overridden(o) == [ok |-> TRUE, filter |-> Failure.filter, ogs |-> o]

Evaluator(cond) == IF lower(cond) = lower(Equals) THEN "FilterStringEquals"
                   ELSE "FilterStringContains"

\* Linetype Filters, resolve_parameter_elementid: a BuiltInParameter name,
\* or the name of a parameter element of the document; "" when it raises
resolve_parameter_elementid(token) ==
    IF token \in BuiltInParameters THEN token
    ELSE IF \E sp \in SharedParameters : DisplayName(sp) = token
         THEN CHOOSE sp \in SharedParameters : DisplayName(sp) = token
         ELSE ""

\* create_filter building the filter whether or not the name is in use
lt_create_filter_rebuilt(rec, existing) ==
    IF \E i \in 1..Len(rec.categories) : rec.categories[i] \notin Categories
    THEN Failure
    ELSE IF \E i \in 1..Len(rec.rules) :
              \/ resolve_parameter_elementid(rec.rules[i].param) = ""
              \/ lower(rec.rules[i].condition) \notin {lower(Equals), lower(Contains)}
    THEN Failure
    ELSE Created([name |-> rec.name, cats |-> rec.categories,
                  efilter |-> "ElementParameterFilter",
                  rules |-> [i \in 1..Len(rec.rules) |->
                               [rtype |-> "FilterStringRule",
                                pid |-> resolve_parameter_elementid(rec.rules[i].param),
                                evaluator |-> Evaluator(rec.rules[i].condition),
                                value |-> rec.rules[i].value]]])

\* Linetype Filters, create_filter: an existing filter of that name is
\* returned as it is; otherwise categories and rules are resolved (an unknown
\* category or parameter, or a condition other than equals/contains, raises)
lt_create_filter(rec, existing) ==
    IF \E g \in existing : g.name = rec.name
    THEN Created(CHOOSE g \in existing : g.name = rec.name)
    ELSE IF \E i \in 1..Len(rec.categories) : rec.categories[i] \notin Categories
    THEN Failure
    ELSE IF \E i \in 1..Len(rec.rules) :
              \/ resolve_parameter_elementid(rec.rules[i].param) = ""
              \/ lower(rec.rules[i].condition) \notin {lower(Equals), lower(Contains)}
    THEN Failure
    ELSE Created([name |-> rec.name, cats |-> rec.categories,
                  efilter |-> "ElementParameterFilter",
                  rules |-> [i \in 1..Len(rec.rules) |->
                               [rtype |-> "FilterStringRule",
                                pid |-> resolve_parameter_elementid(rec.rules[i].param),
                                evaluator |-> Evaluator(rec.rules[i].condition),
                                value |-> rec.rules[i].value]]])

\* Create Linetype Filters, create_filter: getattr on the tokens, the
\* condition compared as written, and Create raising on a name in use
cl_create_filter(rec, existing) ==
    IF \/ \E i \in 1..Len(rec.categories) : rec.categories[i] \notin Categories
       \/ \E i \in 1..Len(rec.rules) :
              \/ rec.rules[i].param \notin BuiltInParameters
              \/ rec.rules[i].condition \notin {Equals, Contains}
       \/ \E g \in existing : g.name = rec.name
    THEN Failure
    ELSE Created([name |-> rec.name, cats |-> rec.categories,
                  efilter |-> "ElementParameterFilter",
                  rules |-> [i \in 1..Len(rec.rules) |->
                               [rtype |-> "FilterStringRule", pid |-> rec.rules[i].param,
                                evaluator |-> Evaluator(rec.rules[i].condition),
                                value |-> rec.rules[i].value]]])

\* Linetype Filters, apply_overrides up to the host calls: the settings
\* built from a record's overrides; parse_color is called outside any try
lt_apply_overrides(o) ==
    IF parse_color(o.line_color) = Raised THEN Failure
    ELSE Overridden(
           [halftone |-> o.halftone,
            line_color |-> parse_color(o.line_color).rgb,
            pattern |-> IF o.line_pattern \in LinePatterns THEN o.line_pattern ELSE "",
            weight |-> IF o.line_weight \in 1..16 THEN o.line_weight ELSE -1,
            transparency |-> IF o.surface_transparency \in 0..100
                             THEN o.surface_transparency ELSE 0])

\* Create Linetype Filters, apply_overrides up to SetFilterOverrides: the
\* colour is unpacked and built, and the transparency set, outside any try
cl_apply_overrides(o) ==
    IF \/ o.line_color.t = "str"
       \/ o.line_color.t = "list" /\ Len(o.line_color.l) # 3
       \/ o.line_color.t = "list" /\ Color(o.line_color.l[1], o.line_color.l[2],
                                            o.line_color.l[3]) = Raised
       \/ o.surface_transparency > 100
    THEN Failure
    ELSE Overridden(
           [halftone |-> o.halftone,
            line_color |-> o.line_color.l,
            pattern |-> IF o.line_pattern \in LinePatterns THEN o.line_pattern ELSE "",
            weight |-> -1,
            transparency |-> IF o.surface_transparency >= 0
                             THEN o.surface_transparency ELSE 0])

\* The loop over filter_data of both importers: the chosen records in file
\* order; a record whose create_filter raises is printed and left out.
\* st is [filters, created, failed].
RECURSIVE create_filters(_, _, _, _, _)
create_filters(script, data, i, selected_filter_names, st) ==
    IF i > Len(data) THEN st
    ELSE IF data[i].name \notin selected_filter_names
    THEN create_filters(script, data, i + 1, selected_filter_names, st)
    ELSE LET res == IF script = "Linetype" THEN lt_create_filter(data[i], st.filters)
                    ELSE cl_create_filter(data[i], st.filters)
         IN  create_filters(script, data, i + 1, selected_filter_names,
               IF res.ok
               THEN [filters |-> st.filters \cup {res.filter},
                     created |-> [n \in DOMAIN st.created \cup {data[i].name} |->
                                     IF n = data[i].name THEN data[i].overrides
                                     ELSE st.created[n]],
                     failed |-> st.failed]
               ELSE [st EXCEPT !.failed = @ \cup {data[i].name}])

\* The loop over created_filters.items() for the selected template, in the
\* order the dictionary yields them.  st is [overrides, raised, printed].
APPLY_FAILED == "Failed to apply overrides"

RECURSIVE apply_filters(_, _, _, _, _)
apply_filters(script, order, i, host_ok, st) ==
    IF i > Len(order) \/ st.raised THEN st
    ELSE LET res == IF script = "Linetype" THEN lt_apply_overrides(created_filters[order[i]])
                    ELSE cl_apply_overrides(created_filters[order[i]])
         IN  apply_filters(script, order, i + 1, host_ok,
               IF ~res.ok THEN [st EXCEPT !.raised = TRUE]
               ELSE IF ~host_ok
               THEN \* AddFilter or SetFilterOverrides raises: caught and printed
                    \* by Linetype Filters, not caught by Create Linetype Filters
                    [st EXCEPT !.raised = (script = "Create"),
                               !.printed = IF script = "Linetype" THEN {APPLY_FAILED} ELSE {}]
               ELSE [st EXCEPT !.overrides =
                        [n \in DOMAIN st.overrides \cup {order[i]} |->
                            IF n = order[i] THEN res.ogs ELSE st.overrides[n]]])

Orders(S) == {o \in [1..Cardinality(S) -> S] : \A i, j \in DOMAIN o : o[i] = o[j] => i = j}

\* Load JSON: the file beside the script; without it the script alerts and exits
LoadJson(script, path) ==
    /\ flt_pc = <<"Export", "done">>
    /\ IF files[path].exists
       THEN /\ filter_data' = json_load(files[path].data)
            /\ flt_pc' = <<script, "select">>
       ELSE /\ flt_pc' = <<script, "exit">>
            /\ UNCHANGED filter_data
    /\ UNCHANGED <<system_bound, template_filters, files, doc_filters, view_overrides,
                   imp_tx, created_filters, failed>>
    /\ OthersUnchanged("filters")

\* The two selection dialogs (either left empty ends the script), then
\* Transaction.Start and the loop that creates the chosen filters
CreateFilters(script) ==
    /\ flt_pc = <<script, "select">>
    /\ \E template_selected \in BOOLEAN,
          selected_filter_names \in SUBSET {filter_data[i].name : i \in 1..Len(filter_data)} :
          IF ~template_selected \/ selected_filter_names = {}
          THEN /\ flt_pc' = <<script, "exit">>
               /\ UNCHANGED <<doc_filters, created_filters, failed, imp_tx>>
          ELSE LET st == create_filters(script, filter_data, 1, selected_filter_names,
                              [filters |-> doc_filters, created |-> <<>>, failed |-> {}])
               IN  /\ imp_tx' = "started"
                   /\ doc_filters' = st.filters
                   /\ created_filters' = st.created
                   /\ failed' = st.failed
                   /\ flt_pc' = <<script, "apply">>
    /\ UNCHANGED <<system_bound, template_filters, files, view_overrides, filter_data>>
    /\ OthersUnchanged("filters")

\* The loop that applies the overrides, then Commit and the closing message;
\* an exception out of the loop ends the script before Commit
ApplyFilters(script) ==
    /\ flt_pc = <<script, "apply">>
    /\ \E order \in Orders(DOMAIN created_filters), host_ok \in BOOLEAN :
          LET st == apply_filters(script, order, 1, host_ok,
                                  [overrides |-> view_overrides, raised |-> FALSE,
                                   printed |-> {}])
          IN  /\ view_overrides' = st.overrides
              /\ failed' = failed \cup st.printed
              /\ IF st.raised
                 THEN flt_pc' = <<script, "raised">> /\ UNCHANGED imp_tx
                 ELSE flt_pc' = <<script, "done">> /\ imp_tx' = "committed"
    /\ UNCHANGED <<system_bound, template_filters, files, doc_filters,
                   filter_data, created_filters>>
    /\ OthersUnchanged("filters")

LinetypeFilters ==
    \/ LoadJson("Linetype", LINETYPE_JSON)
    \/ CreateFilters("Linetype")
    \/ ApplyFilters("Linetype")

CreateLinetypeFilters ==
    \/ LoadJson("Create", CREATE_JSON)
    \/ CreateFilters("Create")
    \/ ApplyFilters("Create")

FltNext == ExportFilterValues \/ UserCopiesFile \/ LinetypeFilters \/ CreateLinetypeFilters

----------------------------------------------------------------------------
(* Viewport Renumber: main.  viewports is the active sheet's viewports in  *)
(* the order GetAllViewports gives them: the centre and height of the box  *)
(* outline (in whole units), whether the view shown is a legend, and the   *)
(* detail number.  Viewport i shows view i; view_names has the name of     *)
(* every view of the project.  rn_tx has the state of the transaction      *)
(* group tg and of the transactions t1, t2 and t3.                         *)

MaxViewports == 3

\* The order of Python on tuples of numbers
RECURSIVE tuple_less(_, _)
tuple_less(a, b) ==
    IF a = <<>> \/ b = <<>> THEN a = <<>> /\ b # <<>>
    ELSE IF Head(a) = Head(b) THEN tuple_less(Tail(a), Tail(b))
    ELSE Head(a) < Head(b)

\* sorted(s, key=...): in key order, equal keys in their given order; key
\* maps every item to its tuple
sorted(s, key) ==
    LET n == Len(s)
        q == CHOOSE q \in Orders(1..n) :
                 \A i, j \in 1..n :
                     i < j => \/ tuple_less(key[s[q[i]]], key[s[q[j]]])
                              \/ key[s[q[i]]] = key[s[q[j]]] /\ q[i] < q[j]
    IN  [i \in 1..n |-> s[q[i]]]

\* collect_non_legend_viewports_on_sheet
collect_non_legend_viewports_on_sheet ==
    SelectSeq([i \in 1..Len(viewports) |-> i], LAMBDA i : ~viewports[i].legend)

\* row_tol = max(heights[len(heights)//2] * 0.5, 1e-5) if heights else 1e-5;
\* heights are even, and below one unit 1e-5 separates only equal centres
compute_row_tol(vps) ==
    LET hs == SelectSeq([i \in 1..Len(vps) |-> viewports[vps[i]].h], LAMBDA h : h > 0)
        heights == sorted(hs, [h \in {hs[i] : i \in 1..Len(hs)} |-> <<h>>])
    IN  IF heights = <<>> THEN 0 ELSE heights[(Len(heights) \div 2) + 1] \div 2

Abs(x) == IF x < 0 THEN -x ELSE x

\* The row loop with last_y renewed at every viewport, not only at a row's first
RECURSIVE cluster_rows_chained(_, _, _, _, _)
cluster_rows_chained(vp_info_sorted, i, tol, last_y, acc) ==
    IF i > Len(vp_info_sorted) THEN acc
    ELSE LET v == vp_info_sorted[i]
             cy == viewports[v].cy
         IN  IF acc # <<>> /\ Abs(last_y - cy) <= tol
             THEN cluster_rows_chained(vp_info_sorted, i + 1, tol, cy,
                                       [acc EXCEPT ![Len(acc)] = Append(@, v)])
             ELSE cluster_rows_chained(vp_info_sorted, i + 1, tol, cy, Append(acc, <<v>>))

\* The row loop: a viewport joins the current row while its centre is within
\* tol of last_y, the centre of the row's first viewport
RECURSIVE cluster_rows(_, _, _, _, _)
cluster_rows(vp_info_sorted, i, tol, last_y, acc) ==
    IF i > Len(vp_info_sorted) THEN acc
    ELSE LET v == vp_info_sorted[i]
             cy == viewports[v].cy
         IN  IF acc # <<>> /\ Abs(last_y - cy) <= tol
             THEN cluster_rows(vp_info_sorted, i + 1, tol, last_y,
                               [acc EXCEPT ![Len(acc)] = Append(@, v)])
             ELSE cluster_rows(vp_info_sorted, i + 1, tol, cy, Append(acc, <<v>>))

RECURSIVE Flatten(_)
Flatten(ss) == IF ss = <<>> THEN <<>> ELSE Head(ss) \o Flatten(Tail(ss))

\* Each row sorted by centre x, the rows one after the other
order_rows(rs) ==
    Flatten([r \in 1..Len(rs) |->
                sorted(rs[r], [v \in 1..Len(viewports) |-> <<viewports[v].cx>>])])

\* param.Set(number) on a viewport: the host refuses a detail number that
\* another viewport of the sheet has, and the script passes over the refusal
set_detail_number(vps, v, number) ==
    IF \E w \in 1..Len(vps) : w # v /\ vps[w].num = number
    THEN vps
    ELSE [vps EXCEPT ![v].num = number]

\* t1: every ordered viewport whose number does not start with 'x' gets 'x' + old
RECURSIVE prefix_detail_numbers(_, _, _)
prefix_detail_numbers(vps, order, i) ==
    IF i > Len(order) THEN vps
    ELSE LET old == vps[order[i]].num
         IN  prefix_detail_numbers(
                 IF old # <<>> /\ old[1] = "x" THEN vps
                 ELSE set_detail_number(vps, order[i], <<"x">> \o old),
                 order, i + 1)

\* t2: the idx-th ordered viewport gets generate_alphanumeric(start_str, idx)
RECURSIVE set_detail_numbers(_, _, _, _)
set_detail_numbers(vps, order, start, i) ==
    IF i > Len(order) THEN vps
    ELSE set_detail_numbers(
             set_detail_number(vps, order[i], generate_alphanumeric(start, i - 1)),
             order, start, i + 1)

\* make_unique_name
RECURSIVE make_unique_name(_, _)
make_unique_name(existing_names, base_name) ==
    IF base_name \in existing_names
    THEN make_unique_name(existing_names, base_name \o <<"x">>)
    ELSE base_name

\* The answers to "Conflict: View name ... already exists. How to handle?"
RnChoices == {"Append x", "Skip", "closed"}

\* t3, one viewport of the loop: a name already in existing_names asks the
\* user; with neither answer the name is assigned as it is.  The host refuses
\* a name another view has, and the script passes over the refusal.
rename_view(st, v, desired_name, choice) ==
    LET conflict == desired_name \in st.existing_names
        new_name == IF conflict /\ choice = "Append x"
                    THEN make_unique_name(st.existing_names, desired_name)
                    ELSE desired_name
        refused == \E w \in DOMAIN st.names : w # v /\ st.names[w] = new_name
        asked == Append(st.choices, IF conflict THEN choice ELSE "not asked")
    IN  IF (conflict /\ choice = "Skip") \/ refused
        THEN [st EXCEPT !.choices = asked]
        ELSE [names |-> [st.names EXCEPT ![v] = new_name],
              existing_names |-> st.existing_names \cup {new_name},
              choices |-> asked]

\* t3: the loop, as the set of its outcomes over the user's answers
RECURSIVE rename_views(_, _, _, _, _)
rename_views(sts, order, start, user_text, i) ==
    IF i > Len(order) THEN sts
    ELSE LET desired_name ==
                 strip(user_text \o <<" ">> \o generate_alphanumeric(start, i - 1))
         IN  rename_views({rename_view(st, order[i], desired_name, choice) :
                               st \in sts, choice \in RnChoices},
                          order, start, user_text, i + 1)

NoTx == [tg |-> "none", t1 |-> "none", t2 |-> "none", t3 |-> "none"]

\* forms.ask_for_string("Start Detail Numbers from:"): a text, or None on cancel
RnAskStart ==
    LET RnStarts == {<<"1">>, <<"A">>, <<"x", "1">>}
    IN  /\ rn_pc = "prompt"
        /\ \/ /\ rn_pc' = "exit"
              /\ UNCHANGED vp_start_str
           \/ /\ vp_start_str' \in RnStarts
              /\ rn_pc' = "order"
        /\ UNCHANGED <<viewports, view_names, row_tol, rows, ordered_vps, rn_tx,
                       rn_user_text, rn_choices>>
        /\ OthersUnchanged("Viewport Renumber")

\* Collect the viewports, cluster them in rows and order them; tg.Start()
RnOrderViewports ==
    /\ rn_pc = "order"
    /\ LET filtered_vps == collect_non_legend_viewports_on_sheet
           tol == compute_row_tol(filtered_vps)
           vp_info_sorted ==
               sorted(filtered_vps,
                      [v \in 1..Len(viewports) |-> <<0 - viewports[v].cy, viewports[v].cx>>])
           rs == cluster_rows(vp_info_sorted, 1, tol, 0, <<>>)
       IN  IF filtered_vps = <<>>
           THEN /\ rn_pc' = "exit"
                /\ UNCHANGED <<row_tol, rows, ordered_vps, rn_tx>>
           ELSE /\ row_tol' = tol
                /\ rows' = rs
                /\ ordered_vps' = order_rows(rs)
                /\ rn_tx' = [rn_tx EXCEPT !.tg = "started"]
                /\ rn_pc' = "prefix"
    /\ UNCHANGED <<viewports, view_names, vp_start_str, rn_user_text, rn_choices>>
    /\ OthersUnchanged("Viewport Renumber")

\* t1: prefix the old detail numbers with 'x'
RnPrefix ==
    /\ rn_pc = "prefix"
    /\ viewports' = prefix_detail_numbers(viewports, ordered_vps, 1)
    /\ rn_tx' = [rn_tx EXCEPT !.t1 = "committed"]
    /\ rn_pc' = "set"
    /\ UNCHANGED <<view_names, vp_start_str, row_tol, rows, ordered_vps,
                   rn_user_text, rn_choices>>
    /\ OthersUnchanged("Viewport Renumber")

\* t2: set the new detail numbers, then ask whether to rename the views;
\* on No the group is assimilated and the closing message shown
RnSetNumbers ==
    /\ rn_pc = "set"
    /\ viewports' = set_detail_numbers(viewports, ordered_vps, vp_start_str, 1)
    /\ \/ /\ rn_pc' = "rename"
          /\ rn_tx' = [rn_tx EXCEPT !.t2 = "committed"]
       \/ /\ rn_pc' = "done"
          /\ rn_tx' = [rn_tx EXCEPT !.t2 = "committed", !.tg = "assimilated"]
    /\ UNCHANGED <<view_names, vp_start_str, row_tol, rows, ordered_vps,
                   rn_user_text, rn_choices>>
    /\ OthersUnchanged("Viewport Renumber")

\* Rename views with the cancel of the prefix prompt tested after the loop,
\* which has then run with an empty text
RnRenameViews_cancel_after_loop ==
    /\ rn_pc = "rename"
    /\ \E cancelled \in BOOLEAN, user_text \in {<<"S">>, <<>>} :
           /\ \E st \in rename_views({[names |-> view_names,
                                       existing_names |->
                                           {view_names[v] : v \in DOMAIN view_names},
                                       choices |-> <<>>]},
                                     ordered_vps, vp_start_str,
                                     IF cancelled THEN <<>> ELSE user_text, 1) :
                  /\ view_names' = st.names
                  /\ rn_choices' = st.choices
           /\ rn_user_text' = user_text
           /\ rn_tx' = [rn_tx EXCEPT !.t3 = "committed", !.tg = "assimilated"]
           /\ rn_pc' = IF cancelled THEN "exit" ELSE "done"
    /\ UNCHANGED <<viewports, vp_start_str, row_tol, rows, ordered_vps>>
    /\ OthersUnchanged("Viewport Renumber")

\* Rename views: the prefix prompt (cancel assimilates the group and exits),
\* then t3 and the closing message
RnRenameViews ==
    LET RnTexts == {<<"S">>, <<>>}
    IN  /\ rn_pc = "rename"
        /\ \/ /\ rn_pc' = "exit"
              /\ rn_tx' = [rn_tx EXCEPT !.tg = "assimilated"]
              /\ UNCHANGED <<view_names, rn_user_text, rn_choices>>
           \/ \E user_text \in RnTexts :
                 /\ \E st \in rename_views({[names |-> view_names,
                                             existing_names |->
                                                 {view_names[v] : v \in DOMAIN view_names},
                                             choices |-> <<>>]},
                                           ordered_vps, vp_start_str, user_text, 1) :
                        /\ view_names' = st.names
                        /\ rn_choices' = st.choices
                 /\ rn_user_text' = user_text
                 /\ rn_tx' = [rn_tx EXCEPT !.t3 = "committed", !.tg = "assimilated"]
                 /\ rn_pc' = "done"
        /\ UNCHANGED <<viewports, vp_start_str, row_tol, rows, ordered_vps>>
        /\ OthersUnchanged("Viewport Renumber")

RnNext == RnAskStart \/ RnOrderViewports \/ RnPrefix \/ RnSetNumbers \/ RnRenameViews

----------------------------------------------------------------------------
(* Sheets From Excel.  excel_rows are the rows of the workbook below the   *)
(* header row, a cell text under each header; of the six parameter columns *)
(* one is kept.  doc_sheets are the sheets of the document, each with its  *)
(* number, its name and the value of that parameter.                       *)

MaxRows == 3

REQUIRED_HEADERS == {"Sheet Number", "Sheet Name", "Admin_Document_Package"}

\* safe_str: characters outside \x20-\x7E are removed, then the text stripped
safe_str(val) == strip(SelectSeq(val, LAMBDA c : c \notin {"\t", "\n", "\r"}))

\* The rows kept as sheet_data: every cell through safe_str, and a row with
\* an empty or "total" sheet number left out
read_sheet_data(raw) ==
    SelectSeq([i \in 1..Len(raw) |-> [h \in REQUIRED_HEADERS |-> safe_str(raw[i][h])]],
              LAMBDA row : /\ row["Sheet Number"] # <<>>
                           /\ lower(strip(row["Sheet Number"])) # <<"t", "o", "t", "a", "l">>)

\* The sheet of the document that has the number
sheet_of(sheets, num) == CHOOSE s \in sheets : s["Sheet Number"] = num

\* get_differences with every column reported, equal or not
get_differences_every_column(sheet, excel_data) ==
    REQUIRED_HEADERS \ {"Sheet Number"}

\* get_differences: the headers under which the sheet and the row differ
get_differences(sheet, excel_data) ==
    {key \in REQUIRED_HEADERS \ {"Sheet Number"} : safe_str(sheet[key]) # excel_data[key]}

\* errors.append("{} ({})".format(sheet_number, str(ex)))
error_line(sheet_number, ex) == sheet_number \o <<" ", "(", ex, ")">>

\* What ViewSheet.Create gives a new sheet before the script sets anything
new_sheet(sheets) ==
    [h \in REQUIRED_HEADERS |->
        CASE h = "Sheet Number" -> <<"A">> \o py_str(100 + Cardinality(sheets))
          [] h = "Sheet Name" -> <<"U", "n", "n", "a", "m", "e", "d">>
          [] OTHER -> <<>>]

\* One pass of the loop with every row that is not selected dropped unreported
process_row_unreported(st, data, raises) ==
    LET sheet_number == data["Sheet Number"]
    IN  IF sheet_number \in existing_sheets \/ sheet_number \notin chosen_new
        THEN st
        ELSE [st EXCEPT !.created = Append(@, sheet_number)]

\* One pass of the loop over sheet_data.  st is [sheets, created, updated,
\* skipped, errors]; raises is the host call that raises in this pass, if it
\* is made ("none": no call raises).  Setting a sheet number that another
\* sheet has raises in any case.  What was changed before the exception stays.
process_row(st, data, raises) ==
    LET sheet_number == data["Sheet Number"]
        sheet_name == data["Sheet Name"]
        failed_with(sheets, ex) ==
            [st EXCEPT !.sheets = sheets, !.errors = Append(@, error_line(sheet_number, ex))]
        \* vs.Name = sheet_name, then param.Set(val) for the parameter
        fill(sheets, vs, set_name, list) ==
            LET named == [vs EXCEPT !["Sheet Name"] = sheet_name]
                filled == [named EXCEPT !["Admin_Document_Package"] =
                                            data["Admin_Document_Package"]]
            IN  IF set_name /\ raises = "Name" THEN failed_with(sheets, "Name")
                ELSE IF raises = "Set"
                THEN failed_with((sheets \ {vs}) \cup {IF set_name THEN named ELSE vs}, "Set")
                ELSE [st EXCEPT
                          !.sheets = (sheets \ {vs}) \cup
                                     {IF set_name THEN filled
                                      ELSE [vs EXCEPT !["Admin_Document_Package"] =
                                                data["Admin_Document_Package"]]},
                          ![list] = Append(@, sheet_number)]
    IN  IF sheet_number \in existing_sheets
        THEN IF sheet_number \in chosen_update
             THEN LET vs == sheet_of(st.sheets, sheet_number)
                  IN  fill(st.sheets, vs, vs["Sheet Name"] # sheet_name, "updated")
             ELSE [st EXCEPT !.skipped = Append(@, sheet_number)]
        ELSE IF sheet_number \in chosen_new
             THEN LET vs == new_sheet(st.sheets)
                      with_new == st.sheets \cup {vs}
                      numbered == [vs EXCEPT !["Sheet Number"] = sheet_number]
                  IN  IF raises = "Create" THEN failed_with(st.sheets, "Create")
                      ELSE IF \E s \in st.sheets : s["Sheet Number"] = sheet_number
                      THEN failed_with(with_new, "SheetNumber")
                      ELSE fill((with_new \ {vs}) \cup {numbered}, numbered, TRUE, "created")
             ELSE [st EXCEPT !.skipped = Append(@, sheet_number)]

\* Read sheet data, collect the existing sheets, the two selection dialogs
\* (a cancelled dialog selects nothing), the tracking lists and t.Start()
SxReadAndSelect ==
    /\ sx_pc = "read"
    /\ LET data == read_sheet_data(excel_rows)
           existing == {s["Sheet Number"] : s \in doc_sheets}
           new_sheet_numbers == {data[i]["Sheet Number"] : i \in 1..Len(data)} \ existing
           sheets_with_differences ==
               {data[i]["Sheet Number"] : i \in
                   {j \in 1..Len(data) :
                       /\ data[j]["Sheet Number"] \in existing
                       /\ get_differences(sheet_of(doc_sheets, data[j]["Sheet Number"]),
                                          data[j]) # {}}}
       IN  /\ sheet_data' = data
           /\ existing_sheets' = existing
           /\ chosen_new' \in SUBSET new_sheet_numbers
           /\ chosen_update' \in SUBSET sheets_with_differences
    /\ row_idx' = 1
    /\ sx_pc' = "loop"
    /\ UNCHANGED <<excel_rows, doc_sheets, created, updated, skipped, errors>>
    /\ OthersUnchanged("Sheets From Excel")

\* One pass of the loop over sheet_data, in its try/except
SxProcessRow ==
    LET \* The host calls of one pass of the loop that can raise
        HostCalls == {"Create", "Name", "Set"}
    IN  /\ sx_pc = "loop"
        /\ row_idx <= Len(sheet_data)
        /\ \E raises \in HostCalls \cup {"none"} :
              LET st == process_row([sheets |-> doc_sheets, created |-> created,
                                     updated |-> updated, skipped |-> skipped,
                                     errors |-> errors],
                                    sheet_data[row_idx], raises)
              IN  /\ doc_sheets' = st.sheets
                  /\ created' = st.created
                  /\ updated' = st.updated
                  /\ skipped' = st.skipped
                  /\ errors' = st.errors
        /\ row_idx' = row_idx + 1
        /\ UNCHANGED <<excel_rows, sheet_data, existing_sheets, chosen_new, chosen_update, sx_pc>>
        /\ OthersUnchanged("Sheets From Excel")

\* t.Commit() and the report
SxCommitAndReport ==
    /\ sx_pc = "loop"
    /\ row_idx > Len(sheet_data)
    /\ sx_pc' = "done"
    /\ UNCHANGED <<excel_rows, doc_sheets, sheet_data, existing_sheets, chosen_new,
                   chosen_update, created, updated, skipped, errors, row_idx>>
    /\ OthersUnchanged("Sheets From Excel")

SxNext == SxReadAndSelect \/ SxProcessRow \/ SxCommitAndReport

----------------------------------------------------------------------------
(* Add Worksets.  worksets are the user worksets of the document in the    *)
(* order the collector gives them, each with its name and its default      *)
(* visibility; a workset's place in the sequence is its id.  A package is  *)
(* a sequence of <<name, visibility flag>>.  Of the built-in packages the  *)
(* first names, one link workset and the last name are kept.               *)

MaxWorksets == 3

AUS_STR ==
    << <<"00_Structures", TRUE>>, <<"01_Foundations", TRUE>>, <<"88_Link DWG", FALSE>>,
       <<"99_Shared Levels and Grids", TRUE>> >>
AUS_MEP ==
    << <<"00_MEP Combined Services", TRUE>>, <<"88_Link DWG", FALSE>>,
       <<"99_Shared Levels and Grids", TRUE>> >>
SYSTEM_PACKAGES ==
    (<<"A", "u", "s", " ", "S", "T", "R">> :> AUS_STR)
        @@ (<<"A", "u", "s", " ", "M", "E", "P">> :> AUS_MEP)

\* get_all_packages: the built-in packages, then the user's over them
get_all_packages(user) ==
    [n \in DOMAIN SYSTEM_PACKAGES \cup DOMAIN user |->
        IF n \in DOMAIN user THEN user[n] ELSE SYSTEM_PACKAGES[n]]

\* sub in text
str_in(sub, text) ==
    \E i \in 1..(Len(text) - Len(sub) + 1) : SubSeq(text, i, i + Len(sub) - 1) = sub

\* DETERMINE NEW NAME FOR Workset1; "" stands for None
determine_workset1_newname(package_name, predefined) ==
    IF str_in(<<"S", "T", "R">>, package_name) THEN "00_Structures"
    ELSE IF str_in(<<"M", "E", "P">>, package_name) THEN "00_MEP Combined Services"
    ELSE IF predefined # <<>> THEN predefined[1][1] ELSE ""

\* predef_dict.get(name, True): the flag of the last entry with the name
predef_get(predefined, name) ==
    LET at == {i \in 1..Len(predefined) : predefined[i][1] = name}
    IN  IF at = {} THEN TRUE ELSE predefined[CHOOSE i \in at : \A j \in at : j <= i][2]

\* rename_workset_safely and what follows it in the loop: the host refuses a
\* name another workset has (in either call form), which is recorded in
\* errors; after a rename, SetWorksetVisibility is called outside any try
rename_default(st, id, old_name, new_name, raises) ==
    IF \E w \in 1..Len(st.worksets) : w # id /\ st.worksets[w].name = new_name
    THEN [st EXCEPT !.errors = Append(@, <<"Failed to rename to", new_name>>)]
    ELSE LET named == [st EXCEPT !.worksets[id].name = new_name]
         IN  IF raises = "SetWorksetVisibility" THEN [named EXCEPT !.raised = TRUE]
             ELSE [named EXCEPT !.worksets[id].visible = TRUE,
                                !.renamed = Append(@, <<old_name, new_name>>)]

\* RENAME DEFAULT WORKSETS: the loop over the collector
RECURSIVE rename_defaults(_, _, _, _)
rename_defaults(st, id, newname, raises) ==
    IF id > Len(st.worksets) \/ st.raised THEN st
    ELSE LET name == st.worksets[id].name
         IN  rename_defaults(
                 IF name = "Workset1" /\ newname # ""
                 THEN rename_default(st, id, name, newname, raises)
                 ELSE IF name = "Shared Levels and Grids"
                 THEN rename_default(st, id, name, "99_Shared Levels and Grids", raises)
                 ELSE st,
                 id + 1, newname, raises)

\* CREATE OR UPDATE WORKSETS: the loop over selected.  existing_worksets is
\* the name-to-id dictionary read after the renames.  For an existing name
\* SetWorksetVisibility is called outside any try; Workset.Create and the
\* call after it are inside one, and the host refuses a name in use.
RECURSIVE create_or_update(_, _, _, _, _, _)
create_or_update(st, existing_worksets, names, i, predefined, raises) ==
    IF i > Len(names) \/ st.raised THEN st
    ELSE LET name == names[i]
             vis_flag == predef_get(predefined, name)
             failed_create == [st EXCEPT !.errors = Append(@, <<"Failed to create", name>>)]
         IN  create_or_update(
                 IF name \in DOMAIN existing_worksets
                 THEN LET skip == [st EXCEPT !.skipped = Append(@, name)]
                      IN  IF raises = "SetWorksetVisibility" THEN [skip EXCEPT !.raised = TRUE]
                          ELSE [skip EXCEPT !.worksets[existing_worksets[name]].visible = vis_flag]
                 ELSE IF \/ raises = "Create"
                         \/ \E w \in 1..Len(st.worksets) : st.worksets[w].name = name
                 THEN failed_create
                 ELSE IF raises = "SetWorksetVisibility"
                 THEN [failed_create EXCEPT
                          !.worksets = Append(@, [name |-> name, visible |-> TRUE])]
                 ELSE [st EXCEPT !.worksets = Append(@, [name |-> name, visible |-> vis_flag]),
                                 !.created = Append(@, name)],
                 existing_worksets, names, i + 1, predefined, raises)

\* The body of the try: t.Start() to t.Commit().  raises is the kind of host
\* call that raises when it is made ("none": no call raises).
manage_worksets(st, names, newname, predefined, raises) ==
    IF raises = "GetWorksetTable" THEN [st EXCEPT !.raised = TRUE]
    ELSE LET after_rename == rename_defaults(st, 1, newname, raises)
             existing_worksets ==
                 [n \in {after_rename.worksets[w].name : w \in 1..Len(after_rename.worksets)} |->
                     CHOOSE w \in 1..Len(after_rename.worksets) :
                         /\ after_rename.worksets[w].name = n
                         /\ \A v \in 1..Len(after_rename.worksets) :
                                after_rename.worksets[v].name = n => v <= w]
             after_create == create_or_update(after_rename, existing_worksets, names, 1,
                                              predefined, raises)
         IN  IF after_create.raised \/ raises # "Commit" THEN after_create
             ELSE [after_create EXCEPT !.raised = TRUE]

\* The handler without the rollback
on_exception_norollback(has_started, at_start, now) ==
    [worksets |-> now, tx |-> IF has_started THEN "started" ELSE "none"]

\* except Exception: if t.HasStarted(): t.RollBack().  The worksets of the
\* document and the transaction after it: a rollback puts back what
\* t.Start() found
on_exception(has_started, at_start, now) ==
    IF has_started THEN [worksets |-> at_start, tx |-> "rolled back"]
    ELSE [worksets |-> now, tx |-> "none"]

\* The package list and the worksets list: cancel either, or open the
\* manager, and the script ends
AwSelect ==
    /\ aw_pc = "select"
    /\ \/ /\ aw_pc' = "exit"
          /\ UNCHANGED <<selected_package_name, selected, workset1_newname>>
       \/ \E name \in DOMAIN get_all_packages(user_packages) :
             LET predefined == get_all_packages(user_packages)[name]
             IN  /\ selected_package_name' = name
                 /\ workset1_newname' = determine_workset1_newname(name, predefined)
                 /\ \E picked \in SUBSET (1..Len(predefined)) :
                        /\ selected' = [k \in 1..Cardinality(picked) |->
                                           predefined[CHOOSE i \in picked :
                                               Cardinality({j \in picked : j <= i}) = k][1]]
                        /\ aw_pc' = IF picked = {} THEN "exit" ELSE "transaction"
    /\ UNCHANGED <<worksets, ws_before, user_packages, ws_created, ws_skipped, ws_renamed,
                   ws_errors, aw_tx, synced>>
    /\ OthersUnchanged("Add Worksets")

\* MAIN TRANSACTION: the try and its except
AwTransaction ==
    /\ aw_pc = "transaction"
    /\ \E raises \in {"none", "GetWorksetTable", "SetWorksetVisibility", "Create", "Commit"} :
          LET st == manage_worksets([worksets |-> worksets, created |-> ws_created,
                                     skipped |-> ws_skipped, renamed |-> ws_renamed,
                                     errors |-> ws_errors, raised |-> FALSE],
                                    selected, workset1_newname,
                                    get_all_packages(user_packages)[selected_package_name],
                                    raises)
          IN  /\ ws_created' = st.created
              /\ ws_skipped' = st.skipped
              /\ ws_renamed' = st.renamed
              /\ ws_errors' = st.errors
              /\ IF st.raised
                 THEN /\ worksets' = on_exception(TRUE, worksets, st.worksets).worksets
                      /\ aw_tx' = on_exception(TRUE, worksets, st.worksets).tx
                      /\ aw_pc' = "exit"
                 ELSE /\ worksets' = st.worksets
                      /\ aw_tx' = "committed"
                      /\ aw_pc' = "relinquish"
    /\ UNCHANGED <<ws_before, user_packages, selected_package_name, selected,
                   workset1_newname, synced>>
    /\ OthersUnchanged("Add Worksets")

\* RELINQUISH and REPORT: SynchronizeWithCentral in its try, then the message
AwRelinquishAndReport ==
    /\ aw_pc = "relinquish"
    /\ \/ /\ synced' = TRUE
          /\ UNCHANGED ws_errors
       \/ /\ ws_errors' = Append(ws_errors, <<"Relinquish failed", "">>)
          /\ UNCHANGED synced
    /\ aw_pc' = "done"
    /\ UNCHANGED <<worksets, ws_before, user_packages, selected_package_name, selected,
                   workset1_newname, ws_created, ws_skipped, ws_renamed, aw_tx>>
    /\ OthersUnchanged("Add Worksets")

AwNext == AwSelect \/ AwTransaction \/ AwRelinquishAndReport

----------------------------------------------------------------------------
(* Add Worksets: the custom packages.  USER_PACKAGES maps a package name   *)
(* to its worksets, each a Python tuple (as the manager builds it) or list *)
(* (as json.load gives it) of a name and a visibility flag;                *)
(* user_config_file is user_workset_packages.json, whose data, when they   *)
(* parse, map a package name to an array of [name, true/false] arrays.     *)
(* managed records the answers given to the manager in its last run and    *)
(* the packages it then had in memory; mp_runs counts the runs of the      *)
(* script, by the button or by the manager's re-run.                       *)

MaxRuns == 3

NotManaged == [action |-> "none", name |-> <<>>, pkg |-> <<>>, saved |-> FALSE,
               before |-> <<>>, file_before |-> NoFile, run |-> 0]

\* json.dump writing every flag as true
json_dump_packages_all_true(packages) ==
    [n \in DOMAIN packages |->
        [i \in 1..Len(packages[n]) |-> <<packages[n][i].name, "true">>]]

\* json.dump(USER_PACKAGES, f): a tuple or a list is written as an array, a
\* flag as true or false
json_dump_packages(packages) ==
    [n \in DOMAIN packages |->
        [i \in 1..Len(packages[n]) |->
            <<packages[n][i].name, IF packages[n][i].vis THEN "true" ELSE "false">>]]

\* json.load(f): an array is read as a list
json_load_packages(data) ==
    [n \in DOMAIN data |->
        [i \in 1..Len(data[n]) |->
            [kind |-> "list", name |-> data[n][i][1], vis |-> (data[n][i][2] = "true")]]]

\* The loop over re.split(r'[,\n]+', text): the items between commas and
\* line breaks, stripped, the empty ones passed over; '+' or '-' in front
\* gives the flag, which is default_vis_flag without it
RECURSIVE parse_worksets(_, _, _)
parse_worksets(text, cur, default_vis_flag) ==
    LET line == strip(cur)
        item == IF line = <<>> THEN <<>>
                ELSE IF line[1] = "+"
                THEN <<[kind |-> "tuple", name |-> strip(Tail(line)), vis |-> TRUE]>>
                ELSE IF line[1] = "-"
                THEN <<[kind |-> "tuple", name |-> strip(Tail(line)), vis |-> FALSE]>>
                ELSE <<[kind |-> "tuple", name |-> line, vis |-> default_vis_flag]>>
    IN  IF text = <<>> THEN item
        ELSE IF Head(text) \in {",", "\n"}
        THEN item \o parse_worksets(Tail(text), <<>>, default_vis_flag)
        ELSE parse_worksets(Tail(text), Append(cur, Head(text)), default_vis_flag)

\* ", ".join(parts) of the edit prompt's default text
RECURSIVE join_parts(_)
join_parts(pkg) ==
    IF pkg = <<>> THEN <<>>
    ELSE <<IF Head(pkg).vis THEN "+" ELSE "-">> \o Head(pkg).name
             \o (IF Len(pkg) > 1 THEN <<",", " ">> ELSE <<>>) \o join_parts(Tail(pkg))

\* LOAD USER PACKAGES, at the top of the script: the file when it is there
\* and parses, otherwise no package
load_user_packages(file) ==
    IF file.exists /\ file.ok THEN json_load_packages(file.data) ELSE <<>>

\* The button is pressed: the script loads the packages and shows its list
MpLoad ==
    /\ mp_pc \in {"idle", "list", "exit"}
    /\ mp_runs < MaxRuns
    /\ mp_runs' = mp_runs + 1
    /\ USER_PACKAGES' = load_user_packages(user_config_file)
    /\ mp_pc' = "list"
    /\ UNCHANGED <<user_config_file, managed>>
    /\ OthersUnchanged("Manage Custom Packages")

\* "Manage Custom Packages" is picked in the list: manage_custom_packages up
\* to its return on a cancelled prompt, or through SAVE CHANGES and the
\* re-run of the script, which shows the list again.  The re-run is an
\* execfile inside the function: the list it builds is of the packages in
\* memory, or of those it has loaded from the file.
MpManage ==
    LET Texts == {<<"+", "a", ",", "-", "b">>, <<"b", "\n", " ", "a">>,
                  <<"-", " ", "a", ",", ",", "a">>, <<" ", ",">>}
        NewNames == {<<"P">>, <<"A", "u", "s", " ", "S", "T", "R">>}
        Cancelled == [NotManaged EXCEPT !.action = "cancel", !.before = USER_PACKAGES,
                                        !.file_before = user_config_file, !.run = mp_runs]
        \* the packages in memory after the answers, with what was asked
        Outcomes ==
            {[Cancelled EXCEPT !.action = "Create", !.name = name,
                               !.pkg = parse_worksets(text, <<>>, flag)] :
                 name \in NewNames, text \in Texts, flag \in BOOLEAN}
            \cup {[Cancelled EXCEPT !.action = "Edit", !.name = selected_package,
                                    !.pkg = parse_worksets(text, <<>>, TRUE)] :
                      selected_package \in DOMAIN USER_PACKAGES,
                      text \in Texts \cup {join_parts(USER_PACKAGES[n]) :
                                              n \in DOMAIN USER_PACKAGES}}
            \cup {[Cancelled EXCEPT !.action = "Delete", !.name = selected_package] :
                      selected_package \in DOMAIN USER_PACKAGES}
    IN  /\ mp_pc = "list"
        /\ \/ /\ managed' = Cancelled
              /\ mp_pc' = "exit"
              /\ UNCHANGED <<USER_PACKAGES, user_config_file, mp_runs>>
           \/ \E m \in Outcomes, written \in BOOLEAN, reloaded \in BOOLEAN :
                 LET in_memory ==
                         IF m.action = "Delete"
                         THEN [n \in DOMAIN USER_PACKAGES \ {m.name} |-> USER_PACKAGES[n]]
                         ELSE [n \in DOMAIN USER_PACKAGES \cup {m.name} |->
                                  IF n = m.name THEN m.pkg ELSE USER_PACKAGES[n]]
                     file == IF written
                             THEN [exists |-> TRUE, ok |-> TRUE,
                                   data |-> json_dump_packages(in_memory)]
                             ELSE user_config_file
                 IN  /\ managed' = [m EXCEPT !.saved = written]
                     /\ user_config_file' = file
                     /\ USER_PACKAGES' = IF reloaded THEN load_user_packages(file)
                                         ELSE in_memory
                     /\ mp_runs < MaxRuns
                     /\ mp_runs' = mp_runs + 1
                     /\ mp_pc' = "list"
        /\ OthersUnchanged("Manage Custom Packages")

MpNext == MpLoad \/ MpManage

----------------------------------------------------------------------------
(* Join Hierarchy.  jh_elements are the elements of the document in the    *)
(* categories of the list, each with its category and whether the active   *)
(* view shows it; an element's place in the sequence is its id.  joins     *)
(* gives, for every pair <<a, b>> of elements with a < b, the cutting      *)
(* element of their join, or 0 when they are not joined; joins_before is   *)
(* joins as the script found it.  Of the five categories of the list three *)
(* are kept.  unreadable_pairs are the pairs for which AreElementsJoined    *)
(* raised, switch_calls the calls of SwitchJoinOrder made.                 *)

MaxElements == 3
MaxJoins == 2

CATEGORY_UI_ORDER == <<"Floors", "Structural Beams", "Walls">>

\* The pair of two elements as joins has it
PairOf(a, b) == IF a < b THEN <<a, b>> ELSE <<b, a>>
\* JoinGeometryUtils.AreElementsJoined, IsCuttingElementInJoin, SwitchJoinOrder
AreElementsJoined(js, a, b) == js[PairOf(a, b)] # 0
IsCuttingElementInJoin(js, a, b) == js[PairOf(a, b)] = a
SwitchJoinOrder(js, a, b) ==
    [js EXCEPT ![PairOf(a, b)] = IF js[PairOf(a, b)] = a THEN b ELSE a]

\* Collect elements in selected categories
elems_by_cat(name) ==
    SelectSeq([e \in 1..Len(jh_elements) |-> e],
              LAMBDA e : /\ jh_elements[e].cat = name
                         /\ current_view_only => jh_elements[e].in_view)

\* Find already joined pairs: the four loops; a pair whose AreElementsJoined
\* raises (unreadable) is passed over
find_joined_pairs(names, unreadable) ==
    LET n == Len(names)
        of_names(i, j) ==
            Flatten([h \in 1..Len(elems_by_cat(names[i])) |->
                        [l \in 1..Len(elems_by_cat(names[j])) |->
                            <<elems_by_cat(names[i])[h], elems_by_cat(names[j])[l]>>]])
        candidates ==
            Flatten([i \in 1..n |->
                        Flatten([k \in 1..(n - i) |-> of_names(i, i + k)])])
    IN  SelectSeq(candidates,
                  LAMBDA p : /\ PairOf(p[1], p[2]) \notin unreadable
                             /\ AreElementsJoined(joins, p[1], p[2]))

\* Apply hierarchy with SwitchJoinOrder called whatever the order is
RECURSIVE apply_hierarchy_untested(_, _, _, _, _)
apply_hierarchy_untested(st, pairs, i, raising_at, raising_call) ==
    IF i > Len(pairs) THEN st
    ELSE LET he == pairs[i][1]
             le == pairs[i][2]
         IN  apply_hierarchy_untested(
                 IF i = raising_at
                 THEN [st EXCEPT !.errors = @ + 1]
                 ELSE [st EXCEPT !.joins = SwitchJoinOrder(st.joins, he, le),
                                 !.switched = @ + 1,
                                 !.calls = Append(@, <<he, le>>)],
                 pairs, i + 1, raising_at, raising_call)

\* Apply hierarchy: the loop over joined_pairs.  The host call raising_call
\* raises when made for pair raising_at (0: no call raises), which counts an
\* error.  st is [joins, switched, errors, calls].
RECURSIVE apply_hierarchy(_, _, _, _, _)
apply_hierarchy(st, pairs, i, raising_at, raising_call) ==
    IF i > Len(pairs) THEN st
    ELSE LET he == pairs[i][1]
             le == pairs[i][2]
         IN  apply_hierarchy(
                 IF i = raising_at /\ raising_call = "IsCuttingElementInJoin"
                 THEN [st EXCEPT !.errors = @ + 1]
                 ELSE IF IsCuttingElementInJoin(st.joins, he, le) THEN st
                 ELSE IF i = raising_at
                 THEN [st EXCEPT !.errors = @ + 1]
                 ELSE [st EXCEPT !.joins = SwitchJoinOrder(st.joins, he, le),
                                 !.switched = @ + 1,
                                 !.calls = Append(@, <<he, le>>)],
                 pairs, i + 1, raising_at, raising_call)

\* HierarchyDialog: Cancel, or Run with the list as the user has ordered and
\* ticked it (get_ordered_checked), the preview box and the scope
JhDialog ==
    /\ jh_pc = "dialog"
    /\ \/ /\ jh_pc' = "cancelled"
          /\ UNCHANGED <<ordered_checked_names, preview_only, current_view_only>>
       \/ \E items \in Orders({CATEGORY_UI_ORDER[i] : i \in 1..Len(CATEGORY_UI_ORDER)}),
             checked \in SUBSET {CATEGORY_UI_ORDER[i] : i \in 1..Len(CATEGORY_UI_ORDER)} :
             /\ ordered_checked_names' = SelectSeq(items, LAMBDA name : name \in checked)
             /\ preview_only' \in BOOLEAN
             /\ current_view_only' \in BOOLEAN
             /\ jh_pc' = IF checked = {} THEN "no categories" ELSE "collect"
    /\ UNCHANGED <<jh_elements, joins, joins_before, unreadable_pairs, joined_pairs,
                   switched_count, errors_count, switch_calls, jh_tx>>
    /\ OthersUnchanged("Join Hierarchy")

\* Collect and find the joined pairs, going on to apply after the preview
JhFindJoinedPairs_preview_goes_on ==
    /\ jh_pc = "collect"
    /\ \E unreadable \in {{}} \cup {{p} : p \in {q \in DOMAIN joins : joins[q] # 0}} :
           /\ unreadable_pairs' = unreadable
           /\ joined_pairs' = find_joined_pairs(ordered_checked_names, unreadable)
           /\ jh_pc' = IF Len(joined_pairs') = 0 THEN "nothing to do" ELSE "apply"
    /\ UNCHANGED <<jh_elements, joins, joins_before, ordered_checked_names, preview_only,
                   current_view_only, switched_count, errors_count, switch_calls, jh_tx>>
    /\ OthersUnchanged("Join Hierarchy")

\* Collect the elements, find the joined pairs, show the preview or the
\* "Nothing to do" message and return, or go on to apply.  AreElementsJoined
\* may raise for a pair; for a pair not joined that is as the answer False.
JhFindJoinedPairs ==
    /\ jh_pc = "collect"
    /\ \E unreadable \in {{}} \cup {{p} : p \in {q \in DOMAIN joins : joins[q] # 0}} :
           /\ unreadable_pairs' = unreadable
           /\ joined_pairs' = find_joined_pairs(ordered_checked_names, unreadable)
           /\ jh_pc' = IF preview_only THEN "preview"
                       ELSE IF Len(joined_pairs') = 0 THEN "nothing to do"
                       ELSE "apply"
    /\ UNCHANGED <<jh_elements, joins, joins_before, ordered_checked_names, preview_only,
                   current_view_only, switched_count, errors_count, switch_calls, jh_tx>>
    /\ OthersUnchanged("Join Hierarchy")

\* Apply hierarchy: trans.Start(), the loop, trans.Commit() and the summary;
\* when Commit raises the transaction is rolled back
JhApply ==
    /\ jh_pc = "apply"
    /\ \E raising_at \in 0..Len(joined_pairs),
          raising_call \in {"IsCuttingElementInJoin", "SwitchJoinOrder"},
          commit_raises \in BOOLEAN :
          LET st == apply_hierarchy([joins |-> joins, switched |-> 0, errors |-> 0,
                                     calls |-> <<>>],
                                    joined_pairs, 1, raising_at, raising_call)
          IN  /\ switched_count' = st.switched
              /\ errors_count' = st.errors
              /\ switch_calls' = st.calls
              /\ IF commit_raises
                 THEN /\ UNCHANGED joins
                      /\ jh_tx' = "rolled back"
                      /\ jh_pc' = "failed"
                 ELSE /\ joins' = st.joins
                      /\ jh_tx' = "committed"
                      /\ jh_pc' = "finished"
    /\ UNCHANGED <<jh_elements, joins_before, ordered_checked_names, preview_only,
                   current_view_only, unreadable_pairs, joined_pairs>>
    /\ OthersUnchanged("Join Hierarchy")

JhNext == JhDialog \/ JhFindJoinedPairs \/ JhApply

----------------------------------------------------------------------------
(* View Text: convert_case.  The regular expression is matched as Python's *)
(* re matches it: the leftmost match, the alternatives in the order        *)
(* written, each repetition as long as it can be.  In every alternative a  *)
(* shorter repetition leaves a character the next piece cannot take, so    *)
(* giving characters back never finds a match the longest one misses.      *)

MaxTextLen == 5

\* \w
IsWord(c) == IsLetter(c) \/ IsDigit(c) \/ c = "_"

\* \b before the character at i (i = Len(text) + 1: at the end)
WordBoundary(text, i) ==
    LET before == i > 1 /\ IsWord(text[i - 1])
        after == i <= Len(text) /\ IsWord(text[i])
    IN  before # after

\* \d* from i: the position after the digits
RECURSIVE SkipDigits(_, _)
SkipDigits(text, i) ==
    IF i <= Len(text) /\ IsDigit(text[i]) THEN SkipDigits(text, i + 1) ELSE i

\* \s* from i: the position after the white space
RECURSIVE SkipSpaces(_, _)
SkipSpaces(text, i) ==
    IF i <= Len(text) /\ IsSpace(text[i]) THEN SkipSpaces(text, i + 1) ELSE i

\* A literal under re.IGNORECASE: the position after it, 0 when it is not at i
LitAt(text, i, lit) ==
    IF /\ i >= 1
       /\ i + Len(lit) - 1 <= Len(text)
       /\ lower(SubSeq(text, i, i + Len(lit) - 1)) = lower(lit)
    THEN i + Len(lit) ELSE 0

\* (a|b|...)\b from i: the first alternative after which a word ends, 0 for none
RECURSIVE FirstLit(_, _, _, _)
FirstLit(text, i, lits, k) ==
    IF k > Len(lits) THEN 0
    ELSE LET e == LitAt(text, i, lits[k])
         IN  IF e # 0 /\ WordBoundary(text, e) THEN e
             ELSE FirstLit(text, i, lits, k + 1)

UNITS == << <<"m", "m">>, <<"k", "P", "a">>, <<"m", "/", "s">>, <<"M", "P", "a">>,
            <<"k", "N">>, <<"g", "/", "m">>, <<"m">> >>

REFERENCES == << <<"U", "N", "O">>, <<"R", "H", "S">>, <<"S", "H", "S">>,
                 <<"C", "H", "S">>, <<"U", "B">>, <<"U", "C">>, <<"E", "A">>,
                 <<"U", "A">>, <<"T", "F">>, <<"/", "S">>, <<"/", "T", "B">> >>

\* \b\d+(\.\d+)?\s*(mm|kPa|m/s|MPa|kN|g/m|m)\b
match_unit(text, i) ==
    LET d == SkipDigits(text, i)
        f == IF d <= Len(text) /\ text[d] = "." /\ SkipDigits(text, d + 1) > d + 1
             THEN SkipDigits(text, d + 1) ELSE d
    IN  IF WordBoundary(text, i) /\ d > i
        THEN FirstLit(text, SkipSpaces(text, f), UNITS, 1)
        ELSE 0

\* \b(UNO|RHS|SHS|CHS|UB|UC|EA|UA|TF|/S|/TB)\b
match_reference(text, i) ==
    IF WordBoundary(text, i) THEN FirstLit(text, i, REFERENCES, 1) ELSE 0

\* \d+\b from i
DigitsThenBoundary(text, i) ==
    LET d == SkipDigits(text, i)
    IN  IF i >= 1 /\ d > i /\ WordBoundary(text, d) THEN d ELSE 0

\* \bAS\s*/?NZL?\s*\d+\b
match_asnz(text, i) ==
    LET a == LitAt(text, i, <<"A", "S">>)
        s == SkipSpaces(text, a)
        sl == IF LitAt(text, s, <<"/">>) # 0 THEN s + 1 ELSE s
        nz == LitAt(text, sl, <<"N", "Z">>)
        l == IF LitAt(text, nz, <<"L">>) # 0 THEN nz + 1 ELSE nz
    IN  IF WordBoundary(text, i) /\ a # 0 /\ nz # 0
        THEN DigitsThenBoundary(text, SkipSpaces(text, l))
        ELSE 0

\* \bAS\s*\d+\b
match_as(text, i) ==
    LET a == LitAt(text, i, <<"A", "S">>)
    IN  IF WordBoundary(text, i) /\ a # 0
        THEN DigitsThenBoundary(text, SkipSpaces(text, a))
        ELSE 0

\* preserve_pattern matched at i: the position after the match, 0 for no match
match_at(text, i) ==
    IF match_unit(text, i) # 0 THEN match_unit(text, i)
    ELSE IF match_reference(text, i) # 0 THEN match_reference(text, i)
    ELSE IF match_asnz(text, i) # 0 THEN match_asnz(text, i)
    ELSE match_as(text, i)

\* "__PRESERVE_{}__".format(len(preserved_units))
preserve_key(n) ==
    <<"_", "_", "P", "R", "E", "S", "E", "R", "V", "E", "_">> \o py_str(n) \o <<"_", "_">>

\* preserve_pattern.sub(preserve, text): the text with a key for each match,
\* the matches in the order found (preserved_units) and where they were
RECURSIVE preserve_sub(_, _, _)
preserve_sub(text, i, st) ==
    IF i > Len(text) THEN st
    ELSE LET e == match_at(text, i)
         IN  IF e # 0
             THEN preserve_sub(text, e,
                      [temp_text |-> st.temp_text \o preserve_key(Len(st.preserved_units)),
                       preserved_units |->
                           Append(st.preserved_units, SubSeq(text, i, e - 1)),
                       spans |-> Append(st.spans, <<i, e - 1>>)])
             ELSE preserve_sub(text, i + 1,
                      [st EXCEPT !.temp_text = Append(st.temp_text, text[i])])

\* s.title(): a letter after a letter is lowered, any other letter is raised
title(s) ==
    [i \in 1..Len(s) |->
        IF IsLetter(s[i])
        THEN IF i > 1 /\ IsLetter(s[i - 1]) THEN lower_char(s[i]) ELSE upper_char(s[i])
        ELSE s[i]]

\* s.replace(old, new), old not empty
RECURSIVE py_replace(_, _, _)
py_replace(s, old, new) ==
    IF Len(s) < Len(old) THEN s
    ELSE IF SubSeq(s, 1, Len(old)) = old
         THEN new \o py_replace(SubSeq(s, Len(old) + 1, Len(s)), old, new)
         ELSE <<Head(s)>> \o py_replace(Tail(s), old, new)

\* for key, val in preserved_units.items(): temp_text.replace(key, val).
\* No value holds an underscore and no key is part of another, so the
\* order the dictionary gives its items in does not change the result.
RECURSIVE restore(_, _, _)
restore(temp_text, preserved_units, k) ==
    IF k > Len(preserved_units) THEN temp_text
    ELSE restore(py_replace(temp_text, preserve_key(k - 1), preserved_units[k]),
                 preserved_units, k + 1)

CASE_OPTIONS == <<"UPPERCASE", "lowercase", "Sentence case", "Title Case">>

\* The case conversion of convert_case, applied to the text with its keys
apply_case(temp_text, ct) ==
    IF ct = "UPPERCASE" THEN upper(temp_text)
    ELSE IF ct = "lowercase" THEN lower(temp_text)
    ELSE IF ct = "Sentence case"
         THEN IF temp_text # <<>>
              THEN upper(SubSeq(temp_text, 1, 1)) \o lower(Tail(temp_text))
              ELSE temp_text
    ELSE IF ct = "Title Case" THEN title(temp_text)
    ELSE temp_text

convert_case(text, ct) ==
    LET st == preserve_sub(text, 1, [temp_text |-> <<>>, preserved_units |-> <<>>,
                                      spans |-> <<>>])
    IN  restore(apply_case(st.temp_text, ct), st.preserved_units, 1)

\* new_text = convert_case(current_text, selected_case)
VtConvertCase ==
    /\ vt_pc = "note"
    /\ new_text' = convert_case(vt_text, case_type)
    /\ vt_pc' = "converted"
    /\ UNCHANGED <<vt_text, case_type>>
    /\ OthersUnchanged("View Text")

----------------------------------------------------------------------------
(* Specifications.  The scripts share nothing: each specification runs    *)
(* one script, or one function of a script, from the states it can start  *)
(* in, with the state of every other script idle and left alone.          *)

\* The state of every script but the one run
OthersIdle(script) ==
    /\ IF script = "numbering" THEN TRUE ELSE
           /\ start_str = <<>>
           /\ idx = 0
           /\ newnums = <<>>
    /\ IF script = "Increment Value" THEN TRUE ELSE
           /\ old_val = <<>>
           /\ increment = 0
           /\ read_only = FALSE
           /\ param_val = <<>>
           /\ new_val = Pending
           /\ inc_pc = "idle"
           /\ inc_tx = "none"
           /\ count = 0
    /\ IF script = "parse_color" THEN TRUE ELSE
           /\ value = PyNone
           /\ color = NotParsed
    /\ IF script = "filters" THEN TRUE ELSE
           /\ system_bound = FALSE
           /\ template_filters = <<>>
           /\ files = [p \in JsonPaths |-> NoFile]
           /\ doc_filters = {}
           /\ view_overrides = <<>>
           /\ flt_pc = <<"none", "idle">>
           /\ imp_tx = "none"
           /\ filter_data = <<>>
           /\ created_filters = <<>>
           /\ failed = {}
    /\ IF script = "Viewport Renumber" THEN TRUE ELSE
           /\ viewports = <<>>
           /\ view_names = <<>>
           /\ vp_start_str = <<>>
           /\ row_tol = 0
           /\ rows = <<>>
           /\ ordered_vps = <<>>
           /\ rn_pc = "idle"
           /\ rn_tx = NoTx
           /\ rn_user_text = <<>>
           /\ rn_choices = <<>>
    /\ IF script = "Sheets From Excel" THEN TRUE ELSE
           /\ excel_rows = <<>>
           /\ doc_sheets = {}
           /\ sheet_data = <<>>
           /\ existing_sheets = {}
           /\ chosen_new = {}
           /\ chosen_update = {}
           /\ created = <<>>
           /\ updated = <<>>
           /\ skipped = <<>>
           /\ errors = <<>>
           /\ row_idx = 0
           /\ sx_pc = "idle"
    /\ IF script = "Add Worksets" THEN TRUE ELSE
           /\ worksets = <<>>
           /\ ws_before = <<>>
           /\ user_packages = <<>>
           /\ selected_package_name = <<>>
           /\ selected = <<>>
           /\ workset1_newname = ""
           /\ ws_created = <<>>
           /\ ws_skipped = <<>>
           /\ ws_renamed = <<>>
           /\ ws_errors = <<>>
           /\ aw_tx = "none"
           /\ aw_pc = "idle"
           /\ synced = FALSE
    /\ IF script = "Manage Custom Packages" THEN TRUE ELSE
           /\ USER_PACKAGES = <<>>
           /\ user_config_file = NoFile
           /\ managed = NotManaged
           /\ mp_runs = 0
           /\ mp_pc = "idle"
    /\ IF script = "Join Hierarchy" THEN TRUE ELSE
           /\ jh_elements = <<>>
           /\ joins = <<>>
           /\ joins_before = <<>>
           /\ ordered_checked_names = <<>>
           /\ preview_only = FALSE
           /\ current_view_only = TRUE
           /\ unreadable_pairs = {}
           /\ joined_pairs = <<>>
           /\ switched_count = 0
           /\ errors_count = 0
           /\ switch_calls = <<>>
           /\ jh_tx = "none"
           /\ jh_pc = "idle"
    /\ IF script = "View Text" THEN TRUE ELSE
           /\ vt_text = <<>>
           /\ case_type = ""
           /\ new_text = <<>>
           /\ vt_pc = "idle"

GenInit ==
    LET StartAlphabet == {"0", "1", "9", "A", "Z", "z", "-"}
    IN  /\ start_str \in SeqsUpTo(StartAlphabet, MaxStartLen)
        /\ idx = 0
        /\ newnums = <<>>
        /\ OthersIdle("numbering")

IncInit ==
    LET ValAlphabet == {"0", "1", "9", "B", "\n"}
        Increments == {-11, -1, 1, 2}
    IN  /\ old_val \in SeqsUpTo(ValAlphabet, MaxValLen)
        /\ increment \in Increments
        /\ read_only \in BOOLEAN
        /\ param_val = old_val
        /\ new_val = Pending
        /\ inc_pc = "preview"
        /\ inc_tx = "none"
        /\ count = 0
        /\ OthersIdle("Increment Value")

ColInit ==
    LET ColorAlphabet == {"#", "9", "f"}
        ColorEntries == {0, 255, 256}
        ColorSamples ==
            { <<"R", "G", "B", " ", "2", "5", "5", "-", "0", "-", "0">>,
              <<"R", "G", "B", " ", "3", "0", "0", "-", "0", "-", "0">>,
              <<"#", "F", "F", "8", "0", "0", "0">>,
              <<"1", "2", ",", "3", "4">>,
              <<"r", "e", "d">>, <<"R", "e", "d">>, <<" ", "G", "R", "E", "Y", " ">>,
              <<"p", "i", "n", "k">>, <<"c", "y", "a", "n">> }
        ColorNumbers == {0, 123456}
        ColorValues ==
            {PyNone}
            \cup {PyStr(s) : s \in SeqsUpTo(ColorAlphabet, MaxColorLen) \cup ColorSamples}
            \cup {PyList(l) : l \in SeqsUpTo(ColorEntries, MaxListLen)}
            \cup {PyNum(k) : k \in ColorNumbers}
    IN  /\ value \in ColorValues
        /\ color = NotParsed
        /\ OthersIdle("parse_color")

FltInit ==
    LET \* The filters of the exported view template, with their overrides in it
        StringRule(pid, ev) == [rtype |-> "FilterStringRule", pid |-> pid, evaluator |-> ev, value |-> "Dashed"]
        RuleLists ==
            {<<>>, <<[rtype |-> "FilterIntegerRule", pid |-> "ALL_MODEL_INSTANCE_COMMENTS",
                      evaluator |-> "FilterNumericEquals", value |-> "1"]>>}
            \cup {<<StringRule(pid, ev)>> :
                    pid \in BuiltInParameters \cup SharedParameters,
                    ev \in {"FilterStringEquals", "FilterStringContains", "FilterStringBeginsWith"}}
        HostFilters ==
            {[name |-> "Linetype - Dashed", cats |-> cats, efilter |-> ef, rules |-> rules, ogs |-> ogs] :
                cats \in {<<"OST_Walls">>, <<"OST_Walls", "OST_Doors">>},
                ef \in {"ElementParameterFilter", "LogicalAndFilter"},
                rules \in RuleLists,
                ogs \in [halftone : BOOLEAN, line_color : {<<>>, <<255, 0, 0>>},
                         pattern : {"", "Dash", "Solid"}, weight : {-1}, transparency : {0, 50}]}
        \* filters.json as written by hand: one record, its line colour a list or a text
        HandWritten(col) ==
            json_dump(<<[name |-> "Linetype - Hidden", categories |-> <<"OST_Walls">>,
                         rules |-> <<[param |-> "ALL_MODEL_INSTANCE_COMMENTS",
                                      condition |-> Contains, value |-> "Hidden"]>>,
                         overrides |-> [halftone |-> TRUE, line_color |-> col, line_pattern |-> "Dash",
                                        line_weight |-> 2, surface_transparency |-> -1]]>>)
        HandWrittenFiles ==
            {[exists |-> TRUE, data |-> HandWritten(col)] :
                col \in {PyList(<<0, 0, 255>>), PyList(<<0, 0, 256>>),
                         PyStr(<<"R", "G", "B", " ", "0", "-", "0", "-", "2", "5", "5">>),
                         PyStr(<<"R", "G", "B", " ", "0", "-", "0", "-", "2", "5", "6">>)}}
    IN  /\ system_bound \in BOOLEAN
        /\ template_filters \in {<<f>> : f \in HostFilters}
        /\ files \in {[p \in JsonPaths |-> IF p = EXPORT_JSON THEN NoFile ELSE f] :
                         f \in {NoFile} \cup HandWrittenFiles}
        /\ doc_filters \in {{}, {[name |-> "Linetype - Hidden", cats |-> <<"OST_Doors">>,
                                   efilter |-> "LogicalOrFilter", rules |-> <<>>]}}
        /\ view_overrides = <<>>
        /\ flt_pc = <<"Export", "start">>
        /\ imp_tx = "none"
        /\ filter_data = <<>>
        /\ created_filters = <<>>
        /\ failed = {}
        /\ OthersIdle("filters")

\* A sheet of viewports of any layout, numbered 1, 2, 3, ...; the first
\* may show a legend
RnInitLayout ==
    LET \* The heights of the viewports of a sheet: none has an outline, all are
        \* alike, or the first is the small one
        HeightPatterns ==
            {[i \in 1..MaxViewports |-> 0], [i \in 1..MaxViewports |-> 2],
             [i \in 1..MaxViewports |-> IF i = 1 THEN 2 ELSE 4]}
    IN  /\ \E geo \in [1..MaxViewports -> [cx : 0..1, cy : 0..2]],
              hs \in HeightPatterns, first_legend \in BOOLEAN :
              viewports = [i \in 1..MaxViewports |->
                              [cx |-> geo[i].cx, cy |-> geo[i].cy, h |-> hs[i],
                               legend |-> (i = 1 /\ first_legend), num |-> py_str(i)]]
        /\ view_names = [i \in 1..(MaxViewports + 1) |->
                            IF i = MaxViewports + 1 THEN <<"S", " ", "1">> ELSE <<"V">> \o py_str(i)]
        /\ vp_start_str = <<>>
        /\ row_tol = 0
        /\ rows = <<>>
        /\ ordered_vps = <<>>
        /\ rn_pc = "prompt"
        /\ rn_tx = NoTx
        /\ rn_user_text = <<>>
        /\ rn_choices = <<>>
        /\ OthersIdle("Viewport Renumber")

\* A sheet of viewports in rows of two, any of them showing a legend, with
\* any detail numbers, no two alike as the host has it
RnInitNumbers ==
    LET \* The detail numbers found on a sheet
        OldNumbers == {<<"1">>, <<"2">>, <<"3">>, <<"x", "1">>, <<"x", "2">>}
    IN  /\ \E nums \in [1..MaxViewports -> OldNumbers], legends \in [1..MaxViewports -> BOOLEAN] :
              /\ \A i, j \in 1..MaxViewports : nums[i] = nums[j] => i = j
              /\ viewports = [i \in 1..MaxViewports |->
                                 [cx |-> (i - 1) % 2, cy |-> 0 - 4 * ((i - 1) \div 2), h |-> 2,
                                  legend |-> legends[i], num |-> nums[i]]]
        /\ view_names = [i \in 1..(MaxViewports + 1) |->
                            IF i = MaxViewports + 1 THEN <<"S", " ", "1">> ELSE <<"V">> \o py_str(i)]
        /\ vp_start_str = <<>>
        /\ row_tol = 0
        /\ rows = <<>>
        /\ ordered_vps = <<>>
        /\ rn_pc = "prompt"
        /\ rn_tx = NoTx
        /\ rn_user_text = <<>>
        /\ rn_choices = <<>>
        /\ OthersIdle("Viewport Renumber")

\* A sheet of viewports in rows of two numbered 1, 2, 3, ..., in a project
\* whose views, those of the sheet and one more, have any names, no two alike
RnInitNames ==
    LET \* The view names found in a project, some left by an earlier run
        OldNames == {<<"V">>, <<"S", " ", "1">>, <<"S", " ", "1", "x">>, <<"S", " ", "2">>,
                     <<"S", " ", "2", "x">>, <<"2">>, <<"2", "x">>}
    IN  /\ viewports = [i \in 1..MaxViewports |->
                           [cx |-> (i - 1) % 2, cy |-> 0 - 4 * ((i - 1) \div 2), h |-> 2,
                            legend |-> FALSE, num |-> py_str(i)]]
        /\ view_names \in [1..(MaxViewports + 1) -> OldNames]
        /\ \A i, j \in 1..(MaxViewports + 1) : view_names[i] = view_names[j] => i = j
        /\ vp_start_str = <<>>
        /\ row_tol = 0
        /\ rows = <<>>
        /\ ordered_vps = <<>>
        /\ rn_pc = "prompt"
        /\ rn_tx = NoTx
        /\ rn_user_text = <<>>
        /\ rn_choices = <<>>
        /\ OthersIdle("Viewport Renumber")

SxInit ==
    LET NumberCells == {<<>>, <<"T", "O", "T", "A", "L", " ">>, <<"S", "1">>, <<"S", "\t", "2">>}
        NameCells == {<<"P">>, <<"Q">>}
        ExcelRow(num, name, pkg) ==
            [h \in REQUIRED_HEADERS |->
                CASE h = "Sheet Number" -> num [] h = "Sheet Name" -> name [] OTHER -> pkg]
    IN  /\ \E nums \in [1..MaxRows -> NumberCells], names \in [1..MaxRows -> NameCells] :
              excel_rows = [i \in 1..MaxRows |-> ExcelRow(nums[i], names[i], <<"X">>)]
        /\ \E pkg \in {<<"X">>, <<"Y">>} :
              doc_sheets = {ExcelRow(<<"S", "1">>, <<"P">>, pkg)}
        /\ sheet_data = <<>>
        /\ existing_sheets = {}
        /\ chosen_new = {}
        /\ chosen_update = {}
        /\ created = <<>>
        /\ updated = <<>>
        /\ skipped = <<>>
        /\ errors = <<>>
        /\ row_idx = 0
        /\ sx_pc = "read"
        /\ OthersIdle("Sheets From Excel")

\* A workshared document with up to MaxWorksets user worksets of any names
\* and visibilities, no two of a name, and the user's saved packages
\* No file yet, a file that does not parse, or the file of one package
MpInit ==
    /\ user_config_file \in
           {[exists |-> FALSE, ok |-> FALSE, data |-> <<>>],
            [exists |-> TRUE, ok |-> FALSE, data |-> <<>>],
            [exists |-> TRUE, ok |-> TRUE,
             data |-> (<<"P">> :> << <<<<"0", "0", "_", "x">>, "true">>,
                                     <<<<"9", "0">>, "false">> >>)]}
    /\ USER_PACKAGES = <<>>
    /\ managed = NotManaged
    /\ mp_runs = 0
    /\ mp_pc = "idle"
    /\ OthersIdle("Manage Custom Packages")

\* A document of elements of the listed categories, the last of them
\* perhaps not in the active view, with some pairs joined either way
JhInit ==
    LET Pairs == {p \in (1..MaxElements) \X (1..MaxElements) : p[1] < p[2]}
        CatIndex(name) == CHOOSE i \in 1..Len(CATEGORY_UI_ORDER) : CATEGORY_UI_ORDER[i] = name
    IN  /\ \E cats \in [1..MaxElements -> {CATEGORY_UI_ORDER[i] : i \in 1..Len(CATEGORY_UI_ORDER)}],
              last_in_view \in BOOLEAN :
              /\ \A e \in 1..(MaxElements - 1) : CatIndex(cats[e]) <= CatIndex(cats[e + 1])
              /\ jh_elements = [e \in 1..MaxElements |->
                                   [cat |-> cats[e],
                                    in_view |-> (e < MaxElements \/ last_in_view)]]
        /\ joins \in [Pairs -> 0..MaxElements]
        /\ \A p \in Pairs : joins[p] \in {0, p[1], p[2]}
        /\ Cardinality({p \in Pairs : joins[p] # 0}) <= MaxJoins
        /\ joins_before = joins
        /\ ordered_checked_names = <<>>
        /\ preview_only = FALSE
        /\ current_view_only = TRUE
        /\ unreadable_pairs = {}
        /\ joined_pairs = <<>>
        /\ switched_count = 0
        /\ errors_count = 0
        /\ switch_calls = <<>>
        /\ jh_tx = "none"
        /\ jh_pc = "dialog"
        /\ OthersIdle("Join Hierarchy")

AwInit ==
    LET Names == {"Workset1", "Shared Levels and Grids", "00_Structures", "88_Link DWG"}
        Site == << <<"10_Site", FALSE>>, <<"99_Shared Levels and Grids", TRUE>> >>
    IN  /\ \E n \in 1..MaxWorksets :
               \E names \in [1..n -> Names], vis \in [1..n -> BOOLEAN] :
                   /\ \A i, j \in 1..n : names[i] = names[j] => i = j
                   /\ worksets = [i \in 1..n |-> [name |-> names[i], visible |-> vis[i]]]
        /\ ws_before = worksets
        /\ user_packages \in {<<>>, (<<"S", "i", "t", "e">> :> Site)}
        /\ selected_package_name = <<>>
        /\ selected = <<>>
        /\ workset1_newname = ""
        /\ ws_created = <<>>
        /\ ws_skipped = <<>>
        /\ ws_renamed = <<>>
        /\ ws_errors = <<>>
        /\ aw_tx = "none"
        /\ aw_pc = "select"
        /\ synced = FALSE
        /\ OthersIdle("Add Worksets")

\* As AwInit, with a saved package in which the user wrote a name twice
\* ("-10_Site,-88_Link DWG,+10_Site" in the manager's text box: the manager
\* keeps every item of the text)
AwInitRepeats ==
    LET Names == {"Workset1", "Shared Levels and Grids", "10_Site", "88_Link DWG"}
        Site == << <<"10_Site", FALSE>>, <<"88_Link DWG", FALSE>>, <<"10_Site", TRUE>> >>
    IN  /\ \E n \in 1..MaxWorksets :
               \E names \in [1..n -> Names], vis \in [1..n -> BOOLEAN] :
                   /\ \A i, j \in 1..n : names[i] = names[j] => i = j
                   /\ worksets = [i \in 1..n |-> [name |-> names[i], visible |-> vis[i]]]
        /\ ws_before = worksets
        /\ user_packages = (<<"S", "i", "t", "e">> :> Site)
        /\ selected_package_name = <<>>
        /\ selected = <<>>
        /\ workset1_newname = ""
        /\ ws_created = <<>>
        /\ ws_skipped = <<>>
        /\ ws_renamed = <<>>
        /\ ws_errors = <<>>
        /\ aw_tx = "none"
        /\ aw_pc = "select"
        /\ synced = FALSE
        /\ OthersIdle("Add Worksets")

SpecGen == GenInit /\ [][GenerateNext]_vars
SpecInc == IncInit /\ [][IncNext]_vars
SpecCol == ColInit /\ [][ParseColor]_vars
SpecFlt == FltInit /\ [][FltNext]_vars
SpecLayout == RnInitLayout /\ [][RnNext]_vars
SpecNumbers == RnInitNumbers /\ [][RnNext]_vars
SpecNames == RnInitNames /\ [][RnNext]_vars
SpecSheets == SxInit /\ [][SxNext]_vars
SpecWorksets == AwInit /\ [][AwNext]_vars
SpecRepeats == AwInitRepeats /\ [][AwNext]_vars
SpecPackages == MpInit /\ [][MpNext]_vars
SpecJoins == JhInit /\ [][JhNext]_vars

\* A text note that is not empty (if current_text:) and the case chosen from
\* case_options.  The letters spell the units m and mm and the reference UB.
VtInit ==
    LET TextAlphabet == {"1", " ", "m", "u", "B"}
    IN  /\ vt_text \in SeqsUpTo(TextAlphabet, MaxTextLen) \ {<<>>}
        /\ case_type \in {CASE_OPTIONS[k] : k \in 1..Len(CASE_OPTIONS)}
        /\ new_text = <<>>
        /\ vt_pc = "note"
        /\ OthersIdle("View Text")

SpecText == VtInit /\ [][VtConvertCase]_vars

\* Any one of the scripts that open a transaction, run on its own
InitTx == IncInit \/ FltInit \/ RnInitNumbers
NextTx == IncNext \/ FltNext \/ RnNext
SpecTx == InitTx /\ [][NextTx]_vars

----------------------------------------------------------------------------
(* Claims about the detail numbering.                                      *)

\* The successor of a decimal digit string, digit by digit with carry
RECURSIVE DecSucc(_)
DecSucc(s) ==
    IF s = <<>> THEN <<"1">>
    ELSE IF Last(s) = "9" THEN DecSucc(Front(s)) \o <<"0">>
    ELSE Front(s) \o <<Digits[DigitVal(Last(s)) + 2]>>

\* The successor of an upper-case letter string in bijective base 26
RECURSIVE LetSucc(_)
LetSucc(s) ==
    IF s = <<>> THEN <<"A">>
    ELSE IF Last(s) = "Z" THEN LetSucc(Front(s)) \o <<"A">>
    ELSE Front(s) \o <<Upper[LetterVal(Last(s)) + 1]>>

RECURSIVE StripZeros(_)
StripZeros(s) == IF Len(s) > 1 /\ s[1] = "0" THEN StripZeros(Tail(s)) ELSE s

RECURSIVE IterDec(_, _)
IterDec(s, k) == IF k = 0 THEN s ELSE DecSucc(IterDec(s, k - 1))
RECURSIVE IterLet(_, _)
IterLet(s, k) == IF k = 0 THEN s ELSE LetSucc(IterLet(s, k - 1))

IsLettersThenDigits(s, k) ==
    /\ k \in 1..(Len(s) - 1)
    /\ \A i \in 1..k : IsLetter(s[i])
    /\ \A i \in (k + 1)..Len(s) : IsDigit(s[i])

\* C1: generate_alphanumeric(start, index) is the index-th successor of start:
\* for digits the decimal of int(start)+index, for letters the bijective
\* base-26 string index places on, for letters then digits the upper-cased
\* prefix followed by the decimal of number+index.
C1_IndexthSuccessor ==
    \A k \in 1..Len(newnums) :
        /\ (start_str # <<>> /\ \A i \in 1..Len(start_str) : IsDigit(start_str[i]))
              => newnums[k] = IterDec(StripZeros(start_str), k - 1)
        /\ (start_str # <<>> /\ \A i \in 1..Len(start_str) : IsLetter(start_str[i]))
              => newnums[k] = IterLet(upper(start_str), k - 1)
        /\ \A p \in 1..Len(start_str) :
              IsLettersThenDigits(start_str, p)
              => newnums[k] = upper(SubSeq(start_str, 1, p))
                                \o IterDec(StripZeros(SubSeq(start_str, p + 1, Len(start_str))), k - 1)

\* "Z",1 -> "AA" has been generated
C1_Witness ==
    /\ start_str = <<"Z">>
    /\ Len(newnums) >= 2
    /\ newnums[2] = <<"A", "A">>

----------------------------------------------------------------------------
(* Claims about update_value.                                              *)

PadLeft(s, width) == Zeros(width - Len(s)) \o s

\* The last maximal run of digits of s, <<first, last>>; <<0, 0>> if s has no digit
LastDigitRun(s) ==
    LET ds == {i \in 1..Len(s) : IsDigit(s[i])}
    IN  IF ds = {} THEN <<0, 0>>
        ELSE LET e == Max(ds)
                 b == Min({i \in 1..e : \A j \in i..e : IsDigit(s[j])})
             IN  <<b, e>>

\* The first maximal run of digits followed by no digit on its own line
ClosingDigitRun(s) ==
    LET runs == {r \in (1..Len(s)) \X (1..Len(s)) :
                    /\ r[1] <= r[2]
                    /\ \A j \in r[1]..r[2] : IsDigit(s[j])
                    /\ (r[1] = 1 \/ ~IsDigit(s[r[1] - 1]))
                    /\ (r[2] = Len(s) \/ ~IsDigit(s[r[2] + 1]))
                    /\ \A j \in (r[2] + 1)..Len(s) :
                          IsDigit(s[j]) => \E k \in (r[2] + 1)..(j - 1) : s[k] = "\n"}
    IN  IF runs = {} THEN <<0, 0>>
        ELSE CHOOSE r \in runs : \A q \in runs : r[1] <= q[1]

\* The decimal of n with zeros up to width, the zeros after a minus sign
SignedFill(n, width) ==
    IF n < 0 THEN <<"-">> \o PadLeft(str_nat(-n), width - 1)
    ELSE PadLeft(str_nat(n), width)

----------------------------------------------------------------------------
(* Claims about parse_color.                                               *)

\* The groups of one to three decimal digits of a text, left to right
RECURSIVE DigitGroups(_, _)
DigitGroups(s, cur) ==
    IF s = <<>> THEN (IF cur = <<>> THEN <<>> ELSE <<cur>>)
    ELSE IF IsDigit(s[1])
         THEN IF Len(cur) = 3 THEN <<cur>> \o DigitGroups(Tail(s), <<s[1]>>)
              ELSE DigitGroups(Tail(s), Append(cur, s[1]))
         ELSE (IF cur = <<>> THEN <<>> ELSE <<cur>>) \o DigitGroups(Tail(s), <<>>)

SixHex(s) ==
    LET body == IF s # <<>> /\ s[1] = "#" THEN Tail(s) ELSE s
    IN  Len(body) = 6 /\ \A i \in 1..6 : IsHex(body[i])

\* C3: parse_color maps every accepted colour form to its RGB triple and
\* everything else to no colour: a list gives its first three entries, six
\* hex digits (optional '#') the three bytes, three groups of digits the
\* first three groups, a known name its triple, None or any other value None.
\* (A form is read as accepted when its three components are bytes, and a
\* number is read through its text.)
IsByte(k) == k \in 0..255

C3_ParseColorForms ==
    color # NotParsed =>
        IF value.t = "none" THEN color = NoColor
        ELSE IF value.t = "list"
        THEN IF Len(value.l) >= 3 /\ \A i \in 1..3 : IsByte(value.l[i])
             THEN color = RGB(value.l[1], value.l[2], value.l[3])
             ELSE color = NoColor
        ELSE LET text == strip(IF value.t = "str" THEN value.s ELSE py_str(value.n))
                 body == IF text # <<>> /\ text[1] = "#" THEN Tail(text) ELSE text
                 groups == DigitGroups(text, <<>>)
             IN  IF SixHex(text)
                 THEN color = RGB(hex_byte(SubSeq(body, 1, 2)), hex_byte(SubSeq(body, 3, 4)),
                                  hex_byte(SubSeq(body, 5, 6)))
                 ELSE IF Len(groups) >= 3 /\ \A i \in 1..3 : IsByte(py_int(groups[i]))
                 THEN color = RGB(py_int(groups[1]), py_int(groups[2]), py_int(groups[3]))
                 ELSE IF Len(groups) < 3 /\ \E name \in COLOR_NAMES : Chars(name) = lower(text)
                 THEN \E name \in COLOR_NAMES :
                          /\ Chars(name) = lower(text)
                          /\ color = RGB(COLOR_NAME_MAP[name][1], COLOR_NAME_MAP[name][2],
                                         COLOR_NAME_MAP[name][3])
                 ELSE color = NoColor

\* parse_color never lets an exception out
C3_NoException == color # Raised

----------------------------------------------------------------------------
(* Claims about the filter scripts.                                        *)

Importers == {"Linetype", "Create"}

\* C4: the filters.json written by Export Filter Values is the file the
\* importing scripts consume: once the export has run, a run of Linetype
\* Filters or of Create Linetype Filters loads exactly the exported records.
C4_ImportLoadsExport ==
    flt_pc[1] \in Importers /\ files[EXPORT_JSON].exists
        => filter_data = json_load(files[EXPORT_JSON].data)

SeqSet(s) == {s[i] : i \in 1..Len(s)}

\* C5: export then import is a round trip: a record written by the export is
\* accepted by Linetype Filters' create_filter and apply_overrides without
\* error, and in a document that lacks the filter it yields a filter of the
\* same name, category set and rule list, with the same line colour, line
\* pattern, surface transparency and halftone.
C5_RoundTrip ==
    (/\ flt_pc = <<"Linetype", "done">>
     /\ files[EXPORT_JSON].exists
     /\ filter_data = json_load(files[EXPORT_JSON].data)
     /\ APPLY_FAILED \notin failed)
    => \A i \in 1..Len(template_filters) :
          LET f == template_filters[i]
          IN  /\ f.name \notin failed
              /\ \E g \in doc_filters :
                    /\ g.name = f.name
                    /\ SeqSet(g.cats) = SeqSet(f.cats)
                    /\ g.rules = f.rules
              /\ f.name \in DOMAIN view_overrides
              /\ view_overrides[f.name].line_color = f.ogs.line_color
              /\ view_overrides[f.name].pattern = f.ogs.pattern
              /\ view_overrides[f.name].transparency = f.ogs.transparency
              /\ view_overrides[f.name].halftone = f.ogs.halftone

----------------------------------------------------------------------------
(* Claims about the order of the viewports.                                *)

NonLegend == {i \in 1..Len(viewports) : ~viewports[i].legend}
IsArrangementOf(s, S) ==
    /\ {s[k] : k \in 1..Len(s)} = S
    /\ \A j, k \in 1..Len(s) : s[j] = s[k] => j = k
\* The number of viewports in the rows before row r
RowOffset(r) == Len(Flatten(SubSeq(rows, 1, r - 1)))
Ordered == rn_tx.tg # "none"

\* C9: once the viewports are ordered, the order is a permutation of the
\* sheet's non-legend viewports.  The rows, one after the other, are those
\* viewports by descending centre y; every viewport of a row is at most
\* row_tol below the row's first viewport, and the first viewport of every
\* later row is more than row_tol below the first of the row before it.  The
\* order has the rows one after the other, the viewports of each row by
\* ascending centre x.
C9_RowByRowOrder ==
    Ordered =>
        LET scan == Flatten(rows)
        IN  /\ IsArrangementOf(ordered_vps, NonLegend)
            /\ IsArrangementOf(scan, NonLegend)
            /\ \A k \in 1..(Len(scan) - 1) :
                   viewports[scan[k]].cy >= viewports[scan[k + 1]].cy
            /\ \A r \in 1..Len(rows) :
                   /\ rows[r] # <<>>
                   /\ \A j \in 1..Len(rows[r]) :
                          viewports[rows[r][1]].cy - viewports[rows[r][j]].cy <= row_tol
                   /\ r > 1 =>
                          viewports[rows[r - 1][1]].cy - viewports[rows[r][1]].cy > row_tol
                   /\ LET part == SubSeq(ordered_vps, RowOffset(r) + 1,
                                         RowOffset(r) + Len(rows[r]))
                      IN  /\ IsArrangementOf(part, {rows[r][j] : j \in 1..Len(rows[r])})
                          /\ \A j \in 1..(Len(part) - 1) :
                                 viewports[part[j]].cx <= viewports[part[j + 1]].cx

\* Two rows: the second viewport of the first row is row_tol below its first,
\* the first of the second row is row_tol below that one, and the first row
\* is not in the order it was scanned in
C9_Witness ==
    /\ Ordered
    /\ row_tol = 1
    /\ Len(rows) = 2
    /\ Len(rows[1]) = 2
    /\ viewports[rows[1][1]].cy - viewports[rows[1][2]].cy = 1
    /\ viewports[rows[1][2]].cy - viewports[rows[2][1]].cy = 1
    /\ ordered_vps # Flatten(rows)

----------------------------------------------------------------------------
(* Claims about the detail numbers written.                                *)

\* C10: once the new detail numbers are set, the k-th viewport of the order,
\* counted from 0, has the detail number generate_alphanumeric(start_str, k)
C10_NewNumbersCarried ==
    rn_tx.t2 = "committed" =>
        \A k \in 1..Len(ordered_vps) :
            viewports[ordered_vps[k]].num = generate_alphanumeric(vp_start_str, k - 1)

----------------------------------------------------------------------------
(* Claims about the transactions.                                          *)

\* C6: when a script has ended, by its closing message, by an exit or by an
\* exception that leaves it, no transaction or transaction group it started
\* is still open
C6_TransactionsClosed ==
    /\ inc_pc \in {"done", "raised"} => inc_tx # "started"
    /\ flt_pc[1] \in Importers /\ flt_pc[2] \in {"done", "raised", "exit"}
           => imp_tx # "started"
    /\ rn_pc \in {"done", "exit"}
           => \A k \in DOMAIN rn_tx : rn_tx[k] # "started"

----------------------------------------------------------------------------
(* Claims about the report of Sheets From Excel.                           *)

\* The characters of a cell that show, upper-cased
Shown(cell) == upper(SelectSeq(cell, LAMBDA c : c \notin {" ", "\t", "\n", "\r"}))
IsDataRow(row) ==
    /\ Shown(row["Sheet Number"]) # <<>>
    /\ Shown(row["Sheet Number"]) # <<"T", "O", "T", "A", "L">>
DataRows == {i \in 1..Len(excel_rows) : IsDataRow(excel_rows[i])}
\* The number of entries of a list that report the sheet number
Reports(list, num) == Cardinality({k \in 1..Len(list) : list[k] = num})
ErrorReports(num) ==
    Cardinality({k \in 1..Len(errors) :
                    /\ Len(errors[k]) > Len(num) + 2
                    /\ SubSeq(errors[k], 1, Len(num) + 2) = num \o <<" ", "(">>})

\* C7: at the report, created, updated, skipped and errors together have as
\* many entries as the workbook has data rows, and every sheet number is
\* reported as many times as there are data rows with it
C7_EveryRowReportedOnce ==
    sx_pc = "done" =>
        /\ Len(created) + Len(updated) + Len(skipped) + Len(errors) = Cardinality(DataRows)
        /\ \A num \in {Shown(excel_rows[i]["Sheet Number"]) : i \in DataRows} :
               Reports(created, num) + Reports(updated, num) + Reports(skipped, num)
                   + ErrorReports(num)
               = Cardinality({i \in DataRows : Shown(excel_rows[i]["Sheet Number"]) = num})

\* A workbook with a TOTAL row, a sheet created and a row whose host call raised
C7_Witness ==
    /\ sx_pc = "done"
    /\ Cardinality(DataRows) < Len(excel_rows)
    /\ created # <<>>
    /\ errors # <<>>

----------------------------------------------------------------------------
(* Claims about the transaction of Add Worksets.                           *)

\* C8: when the script has ended on an exception that left the body of the
\* transaction, the transaction is rolled back, the worksets of the document
\* (their names and default visibilities) are those found when the script
\* started, and there was no synchronisation with central; and there is
\* never a synchronisation without a committed transaction
C8_RolledBackOnException ==
    /\ aw_pc = "exit" /\ aw_tx # "none"
           => aw_tx = "rolled back" /\ worksets = ws_before /\ ~synced
    /\ synced => aw_tx = "committed" /\ aw_pc = "done"

\* The commit raised after a default workset was renamed and a workset created
C8_Witness ==
    /\ aw_pc = "exit"
    /\ aw_tx = "rolled back"
    /\ ws_renamed # <<>>
    /\ ws_created # <<>>
    /\ worksets = ws_before

----------------------------------------------------------------------------
(* Claims about the starting detail number.                                *)

\* C11: the number generated for index 0, the one the first viewport is
\* given, is the start string as the user entered it, whatever its form.
C11_StartKept ==
    Len(newnums) >= 1 => newnums[1] = start_str

----------------------------------------------------------------------------
(* Claims about the renaming of the views.                                 *)

Xs(n) == [i \in 1..n |-> "x"]
UsedBy(names, name) == \E w \in DOMAIN names : names[w] = name
\* name followed by the smallest number of 'x', at least one, that no view has
SmallestAppend(names, name) ==
    name \o Xs(CHOOSE k \in 1..(Len(names) + 1) :
                   /\ ~UsedBy(names, name \o Xs(k))
                   /\ \A j \in 1..(k - 1) : UsedBy(names, name \o Xs(j)))

\* The view names the rename loop may leave, viewport by viewport: where the
\* desired name is used by a view, Append x gives the smallest free name and
\* any other answer leaves the name; where it is not used, any outcome
RECURSIVE RenamedByChoice(_, _, _, _, _, _)
RenamedByChoice(S, order, start, text, choices, i) ==
    IF i > Len(order) THEN S
    ELSE LET v == order[i]
             desired == strip(text \o <<" ">> \o generate_alphanumeric(start, i - 1))
             step(names) ==
                 IF UsedBy(names, desired)
                 THEN IF choices[i] = "Append x"
                      THEN {[names EXCEPT ![v] = SmallestAppend(names, desired)]}
                      ELSE {names}
                 ELSE {names, [names EXCEPT ![v] = desired]}
                          \cup {[names EXCEPT ![v] = desired \o Xs(k)] :
                                   k \in 1..(Len(names) + 1)}
         IN  RenamedByChoice(UNION {step(names) : names \in S},
                             order, start, text, choices, i + 1)

\* C12: in the rename loop a viewport whose desired name "<text> <number>" is
\* used by a view keeps its view name when the user chooses Skip, and with
\* Append x gets the desired name followed by the smallest number of 'x', at
\* least one, that gives a name no view has; after the loop no two views have
\* the same name.
C12_ConflictByChoice ==
    [][(rn_pc = "rename" /\ rn_pc' = "done") =>
           /\ view_names' \in RenamedByChoice({view_names}, ordered_vps, vp_start_str,
                                              rn_user_text', rn_choices', 1)
           /\ \A v, w \in DOMAIN view_names' : view_names'[v] = view_names'[w] => v = w]_vars

----------------------------------------------------------------------------
(* Claims about the cancelled prompts of Viewport Renumber, on the sheets  *)
(* of RnInitLayout: numbers 1, 2, 3, ..., views V1, V2, V3, ... and S 1.   *)

\* C13: when the start-number prompt is cancelled every detail number and
\* every view name is as it was before the run; when the rename-prefix prompt
\* is cancelled every view name is as it was before the run, the transaction
\* group is assimilated and the detail numbers are those the prefix and
\* numbering passes wrote.
C13_CancelLeaves ==
    rn_pc = "exit" =>
        LET before == [i \in DOMAIN viewports |-> [viewports[i] EXCEPT !.num = py_str(i)]]
        IN  /\ view_names = [i \in 1..(MaxViewports + 1) |->
                                IF i = MaxViewports + 1 THEN <<"S", " ", "1">>
                                ELSE <<"V">> \o py_str(i)]
            /\ rn_tx.tg = "none" => viewports = before
            /\ rn_tx.tg # "none" =>
                   /\ rn_tx.tg = "assimilated"
                   /\ rn_tx.t2 = "committed"
                   /\ rn_tx.t3 = "none"
                   /\ viewports = set_detail_numbers(
                                      prefix_detail_numbers(before, ordered_vps, 1),
                                      ordered_vps, vp_start_str, 1)

\* The rename prompt was cancelled after the numbers A, B, ... were written
C13_Witness ==
    /\ rn_pc = "exit"
    /\ rn_tx.tg = "assimilated"
    /\ vp_start_str = <<"A">>
    /\ \E i \in DOMAIN viewports : viewports[i].num = <<"A">>

----------------------------------------------------------------------------
(* Claims about the filters already in the document.                       *)

\* C14: the creating loop of Linetype Filters (and of Detail Filters, which
\* has the same code) leaves every filter the document already has as it
\* was, with its categories and rules, and makes no second filter of its
\* name; where a chosen record has the name of such a filter, create_filter
\* returns it, so that the record's overrides are kept for the apply loop.
C14_ExistingFilterKept ==
    [][(flt_pc = <<"Linetype", "select">> /\ flt_pc' = <<"Linetype", "apply">>) =>
           \A g \in doc_filters :
               /\ g \in doc_filters'
               /\ \A h \in doc_filters' : h.name = g.name => h = g
               /\ g.name \notin failed']_vars

\* A record listing walls and a rule was chosen where the document has a
\* filter of its name on doors without rules
C14_Witness ==
    /\ flt_pc = <<"Linetype", "apply">>
    /\ \E g \in doc_filters, i \in 1..Len(filter_data) :
           /\ g.efilter = "LogicalOrFilter"
           /\ filter_data[i].name = g.name
           /\ filter_data[i].categories # g.cats
           /\ filter_data[i].rules # <<>>
           /\ g.name \in DOMAIN created_filters

----------------------------------------------------------------------------
(* Claims about the custom packages.                                       *)

\* The workset names and flags of a package, in order
NamesAndFlags(pkg) == [i \in 1..Len(pkg) |-> <<pkg[i].name, pkg[i].vis>>]
\* The packages the list offers
Offered == get_all_packages(USER_PACKAGES)
SavedBy(actions) == mp_pc = "list" /\ managed.saved /\ managed.action \in actions
CancelLeavesAll ==
    (managed.action = "cancel" /\ managed.run = mp_runs) =>
        /\ USER_PACKAGES = managed.before
        /\ user_config_file = managed.file_before
SavedIsOffered ==
    SavedBy({"Create", "Edit"}) =>
        /\ managed.name \in DOMAIN Offered
        /\ NamesAndFlags(Offered[managed.name]) = NamesAndFlags(managed.pkg)

\* C15 as stated: in every list shown after the manager has saved, a package
\* it created or edited is offered with the workset names, order and flags
\* it had in memory, and a package it deleted is not offered; a cancelled
\* prompt of the manager leaves the packages in memory and the file as they
\* were.
C15_PackagesPersist ==
    /\ SavedIsOffered
    /\ SavedBy({"Delete"}) => managed.name \notin DOMAIN Offered
    /\ CancelLeavesAll

\* C15 amended: as stated, but a deleted package is no longer among the
\* custom packages, and its name is offered only where a built-in package
\* has it, as that built-in package.
C15_CustomPackagesPersist ==
    /\ SavedIsOffered
    /\ SavedBy({"Delete"}) =>
           /\ managed.name \notin DOMAIN USER_PACKAGES
           /\ managed.name \in DOMAIN Offered =>
                  /\ managed.name \in DOMAIN SYSTEM_PACKAGES
                  /\ Offered[managed.name] = SYSTEM_PACKAGES[managed.name]
    /\ CancelLeavesAll

\* An edited package of two worksets with different flags was saved, and a
\* later run has read it from the file
C15_Witness ==
    /\ SavedBy({"Edit"})
    /\ Len(managed.pkg) = 2
    /\ managed.pkg[1].vis # managed.pkg[2].vis
    /\ managed.run < mp_runs - 1
    /\ \A i \in 1..2 : USER_PACKAGES[managed.name][i].kind = "list"

----------------------------------------------------------------------------
(* Claims about the default worksets.                                      *)

\* Of the workset names of the model, those that contain "00"
Contains00(name) == name \in {"00_Structures", "00_MEP Combined Services"}

\* C16: at the report, the workset that was named "Workset1" when the script
\* started has a name containing "00", and the one that was named "Shared
\* Levels and Grids" is named "99_Shared Levels and Grids", whatever the
\* package and whatever worksets the document had.
C16_DefaultsRenamed ==
    aw_pc = "done" =>
        \A id \in 1..Len(ws_before) :
            /\ ws_before[id].name = "Workset1" => Contains00(worksets[id].name)
            /\ ws_before[id].name = "Shared Levels and Grids"
                   => worksets[id].name = "99_Shared Levels and Grids"

----------------------------------------------------------------------------
(* Claims about Join Hierarchy.                                            *)

\* The place of an element's category in the ticked list, 0 if not ticked
Priority(e) ==
    LET at == {i \in 1..Len(ordered_checked_names) :
                  ordered_checked_names[i] = jh_elements[e].cat}
    IN  IF at = {} THEN 0 ELSE CHOOSE i \in at : TRUE
Collected(e) == current_view_only => jh_elements[e].in_view
\* SwitchJoinOrder was only called on pairs joined before the run, of two
\* different ticked categories
SwitchedOnlyJoined ==
    \A k \in 1..Len(switch_calls) :
        LET a == switch_calls[k][1]
            b == switch_calls[k][2]
        IN  /\ joins_before[PairOf(a, b)] # 0
            /\ jh_elements[a].cat # jh_elements[b].cat
            /\ Priority(a) # 0
            /\ Priority(b) # 0

\* C17 as stated: after a run that was not a preview and reports no error,
\* in every join of two elements of ticked categories the element of the
\* category listed higher is the cutting element; SwitchJoinOrder is never
\* called on a pair not joined before, of one category, or with an unticked
\* category.
C17_PriorityOnEveryJoin ==
    /\ (jh_pc = "finished" /\ errors_count = 0) =>
           \A a, b \in 1..Len(jh_elements) :
               (/\ Priority(a) # 0
                /\ Priority(a) < Priority(b)
                /\ joins[PairOf(a, b)] # 0)
               => joins[PairOf(a, b)] = a
    /\ SwitchedOnlyJoined

\* C17 amended: as stated, for the joins of two elements the scope collects
\* (with "Current view", elements of the active view) for which
\* AreElementsJoined answered.
C17_PriorityOnCollectedJoins ==
    /\ (jh_pc = "finished" /\ errors_count = 0) =>
           \A a, b \in 1..Len(jh_elements) :
               (/\ Priority(a) # 0
                /\ Priority(a) < Priority(b)
                /\ Collected(a)
                /\ Collected(b)
                /\ PairOf(a, b) \notin unreadable_pairs
                /\ joins[PairOf(a, b)] # 0)
               => joins[PairOf(a, b)] = a
    /\ SwitchedOnlyJoined

\* A run on the entire model has switched one join and left alone one whose
\* higher element was cutting already
C17_Witness ==
    /\ jh_pc = "finished"
    /\ errors_count = 0
    /\ ~current_view_only
    /\ Len(joined_pairs) = 2
    /\ switched_count = 1
    /\ joins # joins_before

\* C18: with the preview box ticked, with no category ticked, or with no
\* joined pair found, no transaction is started, SwitchJoinOrder is not
\* called and every pair of the document has the join order it had.
C18_NothingModified ==
    (\/ preview_only
     \/ ordered_checked_names = <<>>
     \/ joined_pairs = <<>>
     \/ jh_pc \in {"cancelled", "no categories", "preview", "nothing to do"})
    => /\ jh_tx = "none"
       /\ switch_calls = <<>>
       /\ joins = joins_before

\* The preview was shown for a joined pair whose lower element is cutting
C18_Witness ==
    /\ jh_pc = "preview"
    /\ preview_only
    /\ \E k \in 1..Len(joined_pairs) :
           ~IsCuttingElementInJoin(joins, joined_pairs[k][1], joined_pairs[k][2])

----------------------------------------------------------------------------
(* Claims about convert_case.                                              *)

\* Where preserve_pattern matches in the text of the note
PreservedSpans ==
    preserve_sub(vt_text, 1, [temp_text |-> <<>>, preserved_units |-> <<>>,
                              spans |-> <<>>]).spans

\* A key, in any case, is left in the converted text
PlaceholderRemains ==
    str_in(<<"_", "_", "p", "r", "e", "s", "e", "r", "v", "e", "_">>, lower(new_text))

\* C19: for each of the four case types, every part of the note's text that
\* preserve_pattern matches is in the converted text character for
\* character, at the place it had, and no placeholder is left in it.
C19_UnitsPreserved ==
    vt_pc = "converted" =>
        /\ Len(new_text) = Len(vt_text)
        /\ \A k \in 1..Len(PreservedSpans) :
               SubSeq(new_text, PreservedSpans[k][1], PreservedSpans[k][2])
                   = SubSeq(vt_text, PreservedSpans[k][1], PreservedSpans[k][2])
        /\ ~PlaceholderRemains

----------------------------------------------------------------------------
(* Claims about the existing sheets of Sheets From Excel.                  *)

\* A row of the workbook with the sheet's number has another name or another
\* parameter value than the sheet
RowDiffers(sheet) ==
    \E i \in 1..Len(sheet_data) :
        /\ sheet_data[i]["Sheet Number"] = sheet["Sheet Number"]
        /\ \/ sheet_data[i]["Sheet Name"] # sheet["Sheet Name"]
           \/ sheet_data[i]["Admin_Document_Package"] # sheet["Admin_Document_Package"]

\* The existing sheets the user did not select for update
Unselected == existing_sheets \ chosen_update

\* Whatever the user selects, a sheet selected for update is an existing
\* sheet a row differs from: a sheet with no difference is not offered
SelectedDiffer ==
    (sx_pc = "loop" /\ row_idx = 1) =>
        \A s \in doc_sheets : s["Sheet Number"] \in chosen_update => RowDiffers(s)

\* No pass of the loop changes or removes an existing sheet not selected
UnselectedKept ==
    sx_pc = "loop" =>
        \A s \in doc_sheets : s["Sheet Number"] \in Unselected => s \in doc_sheets'

\* Every row of an existing sheet not selected is reported as skipped
UnselectedSkipped ==
    sx_pc = "done" =>
        \A num \in Unselected :
            /\ Reports(skipped, num)
                   = Cardinality({i \in 1..Len(sheet_data) :
                                     sheet_data[i]["Sheet Number"] = num})
            /\ Reports(created, num) + Reports(updated, num) + ErrorReports(num) = 0

\* C20: an existing sheet is selected for update only if a row of the
\* workbook differs from its name or parameter value (one with no difference
\* is never offered), and an existing sheet that is not selected keeps its
\* name and parameter value through the loop and is reported as skipped.
C20_ExistingSheetsKept ==
    /\ [](chosen_update \subseteq existing_sheets /\ SelectedDiffer /\ UnselectedSkipped)
    /\ [][UnselectedKept]_vars

\* The run is over; the sheet S1 of the document has another name than its
\* row, was not selected, is as it was and is reported as skipped
C20_Witness ==
    /\ sx_pc = "done"
    /\ <<"S", "1">> \in Unselected
    /\ \E s \in doc_sheets :
           /\ s["Sheet Number"] = <<"S", "1">>
           /\ RowDiffers(s)
           /\ s["Sheet Name"] = <<"P">>
    /\ Reports(skipped, <<"S", "1">>) > 0

----------------------------------------------------------------------------
(* Claims about the worksets created and skipped by Add Worksets.          *)

\* The lists of the report that have an entry for the name
OutcomesOf(name) ==
    {l \in {"created", "skipped", "errors"} :
        \/ l = "created" /\ \E k \in 1..Len(ws_created) : ws_created[k] = name
        \/ l = "skipped" /\ \E k \in 1..Len(ws_skipped) : ws_skipped[k] = name
        \/ l = "errors" /\ \E k \in 1..Len(ws_errors) :
                               ws_errors[k] = <<"Failed to create", name>>}

\* The worksets of the document that have the name
WorksetsNamed(name) == {w \in 1..Len(worksets) : worksets[w].name = name}

\* C21: at the report, every selected name is in exactly one of created,
\* skipped and errors; a name reported as created is the name of one workset,
\* made in this run; a name reported as skipped is the name of a workset
\* the document had before the run, with the default visibility the package
\* gives the name; and no two worksets of the document have the same name.
C21_OneOutcomePerName ==
    aw_pc = "done" =>
        /\ \A i \in 1..Len(selected) : Cardinality(OutcomesOf(selected[i])) = 1
        /\ \A k \in 1..Len(ws_created) :
               /\ Cardinality(WorksetsNamed(ws_created[k])) = 1
               /\ \A w \in WorksetsNamed(ws_created[k]) : w > Len(ws_before)
        /\ \A k \in 1..Len(ws_skipped) :
               /\ WorksetsNamed(ws_skipped[k]) # {}
               /\ \A w \in WorksetsNamed(ws_skipped[k]) :
                      /\ w <= Len(ws_before)
                      /\ worksets[w].visible =
                             predef_get(get_all_packages(user_packages)[selected_package_name],
                                        ws_skipped[k])
        /\ \A v, w \in 1..Len(worksets) : worksets[v].name = worksets[w].name => v = w

============================================================================
